---- MODULE Spec2Model ----
(***************************************************************************)
(* AI-Book-Generator: the generation pipeline (BookGenerator), the request *)
(* dispatcher with its retry loop (APIManager) and the stream reader       *)
(* (APIManager.streamChatRequest).                                         *)
(*                                                                         *)
(* Several specifications share the module:                                 *)
(*   Spec        the pipeline from a fresh page: the key dialog, stage     *)
(*               calls, responses, streaming, waits                        *)
(*   SpecResume  the chapter stage and page reloads, from a project whose  *)
(*               concept and outline are generated and stored              *)
(*   SpecEdit    the chapter stage with deleteChapter, resetProject and    *)
(*               page reloads, from a stored project with a short outline  *)
(*   SpecSave    the chapter stage with the auto-save timer, from a stored *)
(*               project with a short outline or one without titles        *)
(*   SpecFlag    the three stage methods with one model and one text per   *)
(*               kind of request, where every request returns or fails     *)
(*               and every timer fires                                     *)
(*   SpecRetry   generateWithRetry on its own, fn's outcomes drawn freely  *)
(*   SpecRetryLive  SpecRetry where every call of fn settles and every     *)
(*               sleep ends                                                *)
(*   SpecStream  streamChatRequest on its own, the chunked body drawn      *)
(*               from a bounded set                                        *)
(*   SpecChunks  streamChatRequest on its own, over a body fixed           *)
(*               beforehand that the reader cuts into chunks anywhere      *)
(*   SpecDispatch the request functions on their own, one call at a time,  *)
(*               the response drawn from a bounded set, and testApiKey     *)
(*               probe by probe                                            *)
(*   SpecContext getChapterContext on its own, over chapters arrays with   *)
(*               and without empty slots                                   *)
(*   SpecToc     parseTableOfContents on its own, over outline texts of    *)
(*               a few lines                                               *)
(*   SpecStorage the save methods of StorageManager, with a clock          *)
(*   SpecLegacy  the chapters button of the legacy page (script.js), its   *)
(*               clicks interleaved with the pending responses             *)
(* Texts are abstracted to short sequences of symbols; every suspension    *)
(* point of a stage method (await of a response, of a stream read, of a    *)
(* sleep) ends an action.  In the pipeline specifications the probes of    *)
(* testApiKey are taken as one step with the handler that runs them.       *)
(***************************************************************************)
EXTENDS Integers, Sequences, FiniteSets, TLC

VARIABLES
  apiKey,           \* APIManager.apiKey
  storedKey,        \* localStorage[aiBookGen_apiKey]
  keyModalOpen,     \* the API key dialog is shown
  currentProject,   \* BookGenerator.currentProject
  generationState,  \* BookGenerator.generationState
  lastProject,      \* localStorage[aiBookGen_lastProject]
  tasks,            \* the suspended invocations of the three stage methods
  sent,             \* the requests handed to fetch by the last step
  lastOp,           \* what the last step was: a call, its end, or a step
  retry,            \* SpecRetry: one run of generateWithRetry
  stream,           \* SpecStream: one run of streamChatRequest
  dispatch,         \* SpecDispatch: the request functions and rateLimitInfo
  calc,             \* SpecContext, SpecToc: a pure function, its input and result
  store,            \* SpecStorage: StorageManager and localStorage
  legacy            \* SpecLegacy: the globals and the page of script.js

vars == <<apiKey, storedKey, keyModalOpen, currentProject, generationState,
          lastProject, tasks, sent, lastOp, retry, stream, dispatch, calc, store,
          legacy>>

pipelineVars == <<apiKey, storedKey, keyModalOpen, currentProject,
                  generationState,
                  lastProject, tasks, sent, lastOp>>

----------------------------------------------------------------------------
(* Bounds of the model *)

\* number of async stage invocations that can be suspended at the same time
MaxTasks == 2
\* longest outline the remote service returns in Spec
MaxTitles == 2
\* length of the outline SpecResume starts from
ResumeTitles == 5
\* largest maxRetries argument tried in SpecRetry
MaxRetriesArg == 4
\* number of lines of a streamed body in SpecStream
MaxFrames == 4
\* number of lines in one chunk in SpecStream
MaxLines == 2
\* number of request function calls in SpecDispatch
MaxCalls == 2
\* longest chapters array in SpecContext
MaxChapters == 3
\* number of lines of the outline text in SpecToc
MaxTocLines == 2
\* the clock ticks of SpecStorage
MaxClock == 1
\* most lines of the contents field in SpecLegacy
MaxLegacyLines == 3
\* most requests in flight at a time in SpecLegacy
MaxPending == 3

----------------------------------------------------------------------------
(* Program constants *)

\* CONFIG.GENERATION.maxRetries
maxRetries == 3

\* CONFIG.GENERATION.streamChapters
streamChapters == TRUE

\* CONFIG.GENERATION.useJsonOutlineWhenAvailable
useJsonOutlineWhenAvailable == TRUE

\* CONFIG.GENERATION.useJsonConceptWhenAvailable
useJsonConceptWhenAvailable == TRUE

\* CONFIG.MODELS: model identifier -> preferredApi
MODELS ==
  [m \in {"gpt-5-pro", "gpt-5", "gpt-5-mini", "gpt-5-nano", "gpt-4o-mini",
          "gpt-4o", "o4-mini", "gpt-4-turbo", "gpt-4", "gpt-3.5-turbo"} |->
     IF m \in {"gpt-5-pro", "gpt-5", "gpt-5-mini", "gpt-5-nano", "o4-mini"}
     THEN "responses" ELSE "chat"]

\* the models the user picks in the form, one of each endpoint
SelectableModels == {"gpt-4o-mini", "gpt-5-mini"}

\* candidates of testApiKey, in order
probeCandidates ==
  <<"gpt-4o-mini", "gpt-5-mini", "gpt-4o", "gpt-4-turbo", "gpt-3.5-turbo">>

NoKey == "null"
\* a key that setApiKey accepts and one that it rejects; the user types
\* the keys of KeyInputs
GoodKey == "sk-0123456789abcdef"
BadKey == "short"
KeyInputs == {GoodKey}

\* setApiKey's format test: VALIDATION.API_KEY or a length of at least 16
ValidKeyFormat(key) == key = GoodKey

\* how testApiKey ends: candidate n is the first to answer as asked, or
\* every candidate fails and testApiKey throws
ProbeOutcomes ==
  {[n |-> 1, ok |-> TRUE], [n |-> 2, ok |-> TRUE],
   [n |-> Len(probeCandidates), ok |-> FALSE]}

\* preferResponsesAPI with `!== 'chat'` for `=== 'responses'`
preferResponsesAPINotChat(model) ==
  IF model \in DOMAIN MODELS THEN MODELS[model] # "chat" ELSE TRUE

\* APIManager.preferResponsesAPI
preferResponsesAPI(model) ==
  IF model \in DOMAIN MODELS THEN MODELS[model] = "responses" ELSE FALSE

----------------------------------------------------------------------------
(* Error messages, and the test generateWithRetry makes on them *)

MsgNoKey == "API key not set"
MsgInvalidKey == "Invalid API key. Please check your OpenAI API key."
MsgRateLimit == "Rate limit exceeded. Please wait 60 seconds before trying again."
MsgUnavailable == "OpenAI service temporarily unavailable. Please try again later."
MsgOther == "API request failed with status 400"
MsgFetch == "Failed to fetch"
MsgNoChapters == "No chapters found in table of contents"
MsgTypeError == "Cannot set properties of undefined"
MsgNone == ""

\* the messages of the errors a request function raises
ErrorMessages ==
  {MsgNoKey, MsgInvalidKey, MsgRateLimit, MsgUnavailable, MsgOther, MsgFetch}

\* String(error.message).toLowerCase().includes('rate limit')
IncludesRateLimit(msg) == msg = MsgRateLimit

\* APIManager.handleAPIError: the message thrown for a non-success status
handleAPIError(status) ==
  CASE status = 401 -> MsgInvalidKey
    [] status = 429 -> MsgRateLimit
    [] status \in {500, 502, 503} -> MsgUnavailable
    [] OTHER -> MsgOther

\* Math.pow(2, n)
RECURSIVE Pow2(_)
Pow2(n) == IF n <= 0 THEN 1 ELSE 2 * Pow2(n - 1)

\* RetryCatch with `attempt <= maxRetries` for `attempt < maxRetries`
RetryCatchOffByOne(msg, attempt, maxR) ==
  IF IncludesRateLimit(msg) /\ attempt <= maxR
  THEN [next |-> "sleep", wait |-> Pow2(attempt)]
  ELSE IF attempt = maxR
       THEN [next |-> "throw", wait |-> 0]
       ELSE [next |-> "sleep", wait |-> attempt]

\* RetryCatch with `sleep(1000)` for `sleep(1000 * attempt)`
RetryCatchConstantWait(msg, attempt, maxR) ==
  IF IncludesRateLimit(msg) /\ attempt < maxR
  THEN [next |-> "sleep", wait |-> Pow2(attempt)]
  ELSE IF attempt = maxR
       THEN [next |-> "throw", wait |-> 0]
       ELSE [next |-> "sleep", wait |-> 1]

\* The catch block of generateWithRetry: what follows a failed attempt.
\* wait is in seconds.
RetryCatch(msg, attempt, maxR) ==
  IF IncludesRateLimit(msg) /\ attempt < maxR
  THEN [next |-> "sleep", wait |-> Pow2(attempt)]
  ELSE IF attempt = maxR
       THEN [next |-> "throw", wait |-> 0]
       ELSE [next |-> "sleep", wait |-> attempt]

----------------------------------------------------------------------------
(* The chapters button of the legacy page (script.js).  lines is the       *)
(* number of non-blank lines of the contents field, which the first click  *)
(* disables; a line is named by its index.  pending lists the line each    *)
(* request in flight was made for; written lists the chapters added to the *)
(* page: heading is the value of currentLine when the <h2> was written (a  *)
(* value of lines or more is a heading of `undefined`), title the line the *)
(* chapter's request was made for.                                         *)

LegacyOff ==
  [phase |-> "off", lines |-> 0, currentLine |-> 0, pending |-> <<>>,
   written |-> <<>>]

\* the click handler up to its await: a request for line currentLine
LegacyHandler(l) ==
  IF l.currentLine < l.lines
  THEN [l EXCEPT !.pending = Append(@, l.currentLine)]
  ELSE l

\* the user clicks the chapters button
LegacyClick ==
  /\ legacy.phase = "on"
  /\ Len(legacy.pending) < MaxPending
  /\ legacy' = LegacyHandler(legacy)
  /\ UNCHANGED <<pipelineVars, retry, stream, dispatch, calc, store>>

\* the pending requests without the k-th, which has settled
Settled(q, k) == SubSeq(q, 1, k - 1) \o SubSeq(q, k + 1, Len(q))

\* the k-th pending request is answered: the handler writes the chapter
\* under the heading of currentLine and, auto-gen being checked, clicks
LegacyResponse(k, autoGen) ==
  /\ legacy.phase = "on"
  /\ k \in 1..Len(legacy.pending)
  /\ LET l1 == [legacy EXCEPT
                  !.pending = Settled(@, k),
                  !.written = Append(@, [heading |-> legacy.currentLine,
                                         title |-> legacy.pending[k]]),
                  !.currentLine = @ + 1]
     IN legacy' = IF autoGen THEN LegacyHandler(l1) ELSE l1
  /\ UNCHANGED <<pipelineVars, retry, stream, dispatch, calc, store>>

\* the k-th pending request fails, or its body has no choices: the handler
\* ends at its await with an error
LegacyFailure(k) ==
  /\ legacy.phase = "on"
  /\ k \in 1..Len(legacy.pending)
  /\ legacy' = [legacy EXCEPT !.pending = Settled(@, k)]
  /\ UNCHANGED <<pipelineVars, retry, stream, dispatch, calc, store>>

----------------------------------------------------------------------------
(* generateWithRetry(fn, maxRetries) on its own.                           *)
(* retry.phase: "off" outside SpecRetry, "call" while fn is in flight,     *)
(* "sleep" during a backoff wait, "returned"/"raised" when it has ended.   *)
(* calls counts the invocations of fn, waits lists the sleeps (seconds),   *)
(* errs lists the messages fn raised, in order.                            *)

RetryOff ==
  [phase |-> "off", maxR |-> 0, attempt |-> 0, calls |-> 0,
   waits |-> <<>>, errs |-> <<>>, raised |-> MsgNone]

\* RetryStart with `let attempt = 0` for `let attempt = 1`
RetryStartAtZero(maxR) ==
  [phase |-> "call", maxR |-> maxR, attempt |-> 0, calls |-> 1,
   waits |-> <<>>, errs |-> <<>>, raised |-> MsgNone]

\* entry of generateWithRetry: attempt = 1, first call of fn
RetryStart(maxR) ==
  [phase |-> "call", maxR |-> maxR, attempt |-> 1, calls |-> 1,
   waits |-> <<>>, errs |-> <<>>, raised |-> MsgNone]

\* fn() rejects with msg: the catch block
RetryFnFails(msg) ==
  /\ retry.phase = "call"
  /\ LET d == RetryCatch(msg, retry.attempt, retry.maxR) IN
       retry' = IF d.next = "sleep"
                THEN [retry EXCEPT !.phase = "sleep",
                                   !.errs = Append(@, msg),
                                   !.waits = Append(@, d.wait)]
                ELSE [retry EXCEPT !.phase = "raised",
                                   !.errs = Append(@, msg),
                                   !.raised = msg]
  /\ UNCHANGED <<pipelineVars, stream, dispatch, calc, store, legacy>>

\* fn() resolves: return await fn()
RetryFnReturns ==
  /\ retry.phase = "call"
  /\ retry' = [retry EXCEPT !.phase = "returned"]
  /\ UNCHANGED <<pipelineVars, stream, dispatch, calc, store, legacy>>

\* the sleep ends: attempt++, loop test, next call of fn
RetryWake ==
  /\ retry.phase = "sleep"
  /\ retry' = IF retry.attempt + 1 <= retry.maxR
              THEN [retry EXCEPT !.phase = "call", !.attempt = @ + 1,
                                 !.calls = @ + 1]
              ELSE [retry EXCEPT !.phase = "raised",
                                 !.attempt = @ + 1,
                                 !.raised = retry.errs[Len(retry.errs)]]
  /\ UNCHANGED <<pipelineVars, stream, dispatch, calc, store, legacy>>

----------------------------------------------------------------------------
(* streamChatRequest's read loop on its own.                               *)
(* A body is text over a few symbols: "data:" (the frame prefix), "{" and  *)
(* "}" (the JSON around a delta's content), "a" and "b" (characters of a   *)
(* token), "[DONE]" (the sentinel), "#" (any other character) and "\n".    *)

NL == "\n"

\* String.prototype.split('\n')
RECURSIVE SplitLines(_, _)
SplitLines(text, cur) ==
  IF text = <<>> THEN <<cur>>
  ELSE IF Head(text) = NL THEN <<cur>> \o SplitLines(Tail(text), <<>>)
       ELSE SplitLines(Tail(text), Append(cur, Head(text)))

TokenChars == {"a", "b"}

\* JsonValid accepting a payload cut short
JsonValidLoose(data) ==
  /\ Len(data) >= 2
  /\ data[1] = "{"

\* JSON.parse(data) succeeds: data is "{" characters "}"
JsonValid(data) ==
  /\ Len(data) >= 2
  /\ data[1] = "{"
  /\ data[Len(data)] = "}"
  /\ \A k \in 2..(Len(data) - 1) : data[k] \in TokenChars

\* payload.choices?.[0]?.delta?.content || ''
JsonContent(data) == SubSeq(data, 2, Len(data) - 1)

\* TokenDelta handing the token over where the aggregate belongs
TokenDeltaTokenOnly(token, agg) ==
  [delta |-> token, full |-> token, final |-> FALSE]

\* onDelta(token, aggregated, false)
TokenDelta(token, agg) == [delta |-> token, full |-> agg, final |-> FALSE]

\* onDelta('', aggregated, true)
FinalDelta(agg) == [delta |-> <<>>, full |-> agg, final |-> TRUE]

\* StreamLine going on with the next line after the [DONE] frame
StreamLineNoReturn(s, line, hasCallback) ==
  IF line = <<>> \/ Head(line) # "data:" THEN s
  ELSE LET data == Tail(line) IN
    IF data = <<"[DONE]">>
    THEN [s EXCEPT !.deltas = IF hasCallback
                              THEN Append(@, FinalDelta(s.aggregated))
                              ELSE @]
    ELSE IF JsonValid(data) /\ JsonContent(data) # <<>>
         THEN LET agg == s.aggregated \o JsonContent(data) IN
              [s EXCEPT !.aggregated = agg,
                        !.deltas = IF hasCallback
                                   THEN Append(@, TokenDelta(JsonContent(data),
                                                             agg))
                                   ELSE @]
         ELSE s

\* One pass of the for-loop body over a line.  s: [aggregated, deltas,
\* returned]; a line seen after the return is not processed.
StreamLine(s, line, hasCallback) ==
  IF s.returned THEN s
  ELSE IF line = <<>> \/ Head(line) # "data:" THEN s
  ELSE LET data == Tail(line) IN
    IF data = <<"[DONE]">>
    THEN [s EXCEPT !.returned = TRUE,
                   !.deltas = IF hasCallback
                              THEN Append(@, FinalDelta(s.aggregated))
                              ELSE @]
    ELSE IF JsonValid(data) /\ JsonContent(data) # <<>>
         THEN LET agg == s.aggregated \o JsonContent(data) IN
              [s EXCEPT !.aggregated = agg,
                        !.deltas = IF hasCallback
                                   THEN Append(@, TokenDelta(JsonContent(data),
                                                             agg))
                                   ELSE @]
         ELSE s

RECURSIVE StreamLines(_, _, _)
StreamLines(s, lines, hasCallback) ==
  IF lines = <<>> THEN s
  ELSE StreamLines(StreamLine(s, Head(lines), hasCallback), Tail(lines),
                   hasCallback)

\* the body of the while loop for one chunk
StreamChunk(s, chunk, hasCallback) ==
  StreamLines(s, SplitLines(chunk, <<>>), hasCallback)

\* frames the remote service sends
Frames ==
  {[kind |-> "token", content |-> <<"a">>],
   [kind |-> "token", content |-> <<"b">>],
   [kind |-> "token", content |-> <<>>],
   [kind |-> "done", content |-> <<>>],
   [kind |-> "garbled", content |-> <<"a", "#">>],
   [kind |-> "comment", content |-> <<>>],
   [kind |-> "blank", content |-> <<>>]}

\* the line of text of a frame, newline included
FrameText(f) ==
  CASE f.kind = "token" -> <<"data:", "{">> \o f.content \o <<"}", NL>>
    [] f.kind = "done" -> <<"data:", "[DONE]", NL>>
    [] f.kind = "garbled" -> <<"data:", "{">> \o f.content \o <<NL>>
    [] f.kind = "comment" -> <<"#", NL>>
    [] OTHER -> <<NL>>

RECURSIVE FramesText(_)
FramesText(fs) ==
  IF fs = <<>> THEN <<>> ELSE FrameText(Head(fs)) \o FramesText(Tail(fs))

FrameSeqs == UNION {[1..n -> Frames] : n \in 1..MaxLines}

\* rest: the text of the body the reader has not yielded yet, where the
\* body is fixed beforehand (SpecChunks)
StreamOff ==
  [phase |-> "off", hasCallback |-> FALSE, aggregated |-> <<>>,
   deltas |-> <<>>, frames |-> <<>>, ret |-> <<>>, rest |-> <<>>]

StreamStart(cb) ==
  [phase |-> "reading", hasCallback |-> cb, aggregated |-> <<>>,
   deltas |-> <<>>, frames |-> <<>>, ret |-> <<>>, rest |-> <<>>]

\* reader.read() yields a chunk made of whole lines
StreamRead(fs) ==
  /\ stream.phase = "reading"
  /\ Len(stream.frames) + Len(fs) <= MaxFrames
  /\ LET s0 == [aggregated |-> stream.aggregated, deltas |-> stream.deltas,
                returned |-> FALSE]
         s1 == StreamChunk(s0, FramesText(fs), stream.hasCallback)
     IN stream' = [stream EXCEPT
                     !.aggregated = s1.aggregated,
                     !.deltas = s1.deltas,
                     !.frames = @ \o fs,
                     !.phase = IF s1.returned THEN "returned" ELSE @,
                     !.ret = IF s1.returned THEN s1.aggregated ELSE @]
  /\ UNCHANGED <<pipelineVars, retry, dispatch, calc, store, legacy>>

\* bodies of data frames with a token each, followed by [DONE]
DataBodies ==
  {Append(fs, [kind |-> "done", content |-> <<>>]) :
     fs \in UNION {[1..n -> {f \in Frames : f.kind = "token" /\ f.content # <<>>}] :
                     n \in 0..(MaxFrames - 1)}}

\* reader.read() yields the next n symbols of the body, wherever that cuts it
StreamReadBytes(n) ==
  /\ stream.phase = "reading"
  /\ n \in 1..Len(stream.rest)
  /\ LET s0 == [aggregated |-> stream.aggregated, deltas |-> stream.deltas,
                returned |-> FALSE]
         s1 == StreamChunk(s0, SubSeq(stream.rest, 1, n), stream.hasCallback)
     IN stream' = [stream EXCEPT
                     !.aggregated = s1.aggregated,
                     !.deltas = s1.deltas,
                     !.rest = SubSeq(@, n + 1, Len(@)),
                     !.phase = IF s1.returned THEN "returned" ELSE @,
                     !.ret = IF s1.returned THEN s1.aggregated ELSE @]
  /\ UNCHANGED <<pipelineVars, retry, dispatch, calc, store, legacy>>

\* reader.read() yields done: the loop breaks and the aggregate is returned
StreamClose ==
  /\ stream.phase = "reading"
  /\ stream' = [stream EXCEPT !.phase = "returned", !.ret = stream.aggregated]
  /\ UNCHANGED <<pipelineVars, retry, dispatch, calc, store, legacy>>

\* reader.read() rejects: the error leaves streamChatRequest
StreamAbort ==
  /\ stream.phase = "reading"
  /\ stream' = [stream EXCEPT !.phase = "raised"]
  /\ UNCHANGED <<pipelineVars, retry, dispatch, calc, store, legacy>>

----------------------------------------------------------------------------
(* The project, and its persistence *)

\* an array slot never assigned, and what JSON makes of it
Hole == [kind |-> "hole"]
Null == [kind |-> "null"]

NoOutlineJson == [kind |-> "none", chapters |-> <<>>]

\* metadata as the constructor sets it
EmptyMetadata ==
  [title |-> "", shortDescription |-> "", suggestions |-> 0,
   conceptJson |-> FALSE, outlineJson |-> NoOutlineJson]

\* currentProject as the constructor sets it
EmptyProject ==
  [concept |-> "", tableOfContents |-> <<>>, chapters |-> <<>>,
   metadata |-> EmptyMetadata]

\* generationState as the constructor sets it
InitialGenerationState ==
  [isGenerating |-> FALSE, chapterIndex |-> 0, autoGenerate |-> FALSE]

NothingStored == [present |-> FALSE]

\* JSON.parse(JSON.stringify(project)): an empty array slot becomes null
JsonRoundTrip(project) ==
  [project EXCEPT !.chapters =
     [k \in 1..Len(project.chapters) |->
        IF project.chapters[k] = Hole THEN Null ELSE project.chapters[k]]]

\* BookGenerator.countWords, a text being a sequence of words
countWords(text) == Len(text)

\* !this.currentProject.chapters[i]
ChapterMissing(chapters, i) ==
  \/ i + 1 > Len(chapters)
  \/ chapters[i + 1] \in {Hole, Null}

\* this.currentProject.chapters[i] = v, for any i >= 0
SetChapter(chapters, i, v) ==
  [k \in 1..(IF Len(chapters) > i + 1 THEN Len(chapters) ELSE i + 1) |->
     IF k = i + 1 THEN v
     ELSE IF k <= Len(chapters) THEN chapters[k] ELSE Hole]

TitleOf(k) ==
  CASE k = 1 -> "t1" [] k = 2 -> "t2" [] k = 3 -> "t3" [] k = 4 -> "t4"
    [] k = 5 -> "t5" [] k = 6 -> "t6" [] OTHER -> "t7"

\* BookGenerator.parseTableOfContents
parseTableOfContents(project) ==
  IF project.metadata.outlineJson.kind = "chapters"
  THEN project.metadata.outlineJson.chapters
  ELSE LET lines == project.tableOfContents
           idx == {k \in 1..Len(lines) : lines[k].kind = "chapter"}
           f[k \in 0..Len(lines)] ==
             IF k = 0 THEN <<>>
             ELSE IF k \in idx THEN Append(f[k - 1], lines[k].title)
                  ELSE f[k - 1]
       IN f[Len(lines)]

----------------------------------------------------------------------------
(* The requests APIManager builds.  options: [model, response_format];     *)
(* messages stands for the prompt: the stage and, for a chapter, its index *)

NoRequest == {}

\* makeChatRequest without its first line
makeChatRequestUnguarded(key, messages, options) ==
  [err |-> MsgNone,
   req |-> {[endpoint |-> "chat", model |-> options.model,
             messages |-> messages, stream |-> FALSE,
             response_format |-> "none", auth |-> key]}]

\* makeChatRequest forwarding options.response_format
makeChatRequestForwarding(key, messages, options) ==
  IF key = NoKey THEN [err |-> MsgNoKey, req |-> NoRequest]
  ELSE [err |-> MsgNone,
        req |-> {[endpoint |-> "chat", model |-> options.model,
                  messages |-> messages, stream |-> FALSE,
                  response_format |-> options.response_format,
                  auth |-> key]}]

\* APIManager.makeChatRequest up to fetch
makeChatRequest(key, messages, options) ==
  IF key = NoKey THEN [err |-> MsgNoKey, req |-> NoRequest]
  ELSE [err |-> MsgNone,
        req |-> {[endpoint |-> "chat", model |-> options.model,
                  messages |-> messages, stream |-> FALSE,
                  response_format |-> "none", auth |-> key]}]

\* APIManager.streamChatRequest up to fetch
streamChatRequest(key, messages, options) ==
  IF key = NoKey THEN [err |-> MsgNoKey, req |-> NoRequest]
  ELSE [err |-> MsgNone,
        req |-> {[endpoint |-> "chat", model |-> options.model,
                  messages |-> messages, stream |-> TRUE,
                  response_format |-> "none", auth |-> key]}]

\* APIManager.makeResponsesRequest up to fetch
makeResponsesRequest(key, messages, options) ==
  IF key = NoKey THEN [err |-> MsgNoKey, req |-> NoRequest]
  ELSE [err |-> MsgNone,
        req |-> {[endpoint |-> "responses", model |-> options.model,
                  messages |-> messages, stream |-> FALSE,
                  response_format |-> options.response_format,
                  auth |-> key]}]

\* APIManager.generateImage up to its first fetch
generateImage(key, messages) ==
  IF key = NoKey THEN [err |-> MsgNoKey, req |-> NoRequest]
  ELSE [err |-> MsgNone,
        req |-> {[endpoint |-> "images", model |-> "gpt-image-1",
                  messages |-> messages, stream |-> FALSE,
                  response_format |-> "b64_json", auth |-> key]}]

JsonFormat(wanted) == IF wanted THEN "json_object" ELSE "none"

\* the closure `call` of generateTitleSuggestions, generateConcept,
\* generateOutline and generateChapter
ApiCall(call, key, model, index) ==
  LET useResponses == preferResponsesAPI(model)
      messages == [kind |-> call, index |-> index]
  IN CASE call = "titles" ->
            IF useResponses
            THEN makeResponsesRequest(key, messages,
                   [model |-> model, response_format |-> "json_object"])
            ELSE makeChatRequest(key, messages,
                   [model |-> model, response_format |-> "none"])
       [] call = "concept" ->
            IF useResponses
            THEN makeResponsesRequest(key, messages,
                   [model |-> model,
                    response_format |-> JsonFormat(useJsonConceptWhenAvailable)])
            ELSE makeChatRequest(key, messages,
                   [model |-> model, response_format |-> "none"])
       [] call = "outline" ->
            IF useResponses
            THEN makeResponsesRequest(key, messages,
                   [model |-> model,
                    response_format |-> JsonFormat(useJsonOutlineWhenAvailable)])
            ELSE makeChatRequest(key, messages,
                   [model |-> model,
                    response_format |-> JsonFormat(useJsonOutlineWhenAvailable)])
       [] OTHER ->
            IF useResponses
            THEN makeResponsesRequest(key, messages,
                   [model |-> model, response_format |-> "none"])
            ELSE IF streamChapters
                 THEN streamChatRequest(key, messages,
                        [model |-> model, response_format |-> "none"])
                 ELSE makeChatRequest(key, messages,
                        [model |-> model, response_format |-> "none"])

\* IsStreamCall without the test of the model
IsStreamCallAnyModel(call, model) == call = "chapter" /\ streamChapters

\* the request of the call is a streaming one
IsStreamCall(call, model) ==
  call = "chapter" /\ ~preferResponsesAPI(model) /\ streamChapters

\* APIManager.testApiKey: the probes it sends when the first n candidates
\* are tried (each but the last fails or answers something else)
testApiKey(key, n) ==
  UNION {IF preferResponsesAPI(probeCandidates[k])
         THEN makeResponsesRequest(key, [kind |-> "probe", index |-> k],
                [model |-> probeCandidates[k], response_format |-> "none"]).req
         ELSE makeChatRequest(key, [kind |-> "probe", index |-> k],
                [model |-> probeCandidates[k], response_format |-> "none"]).req
         : k \in 1..n}

----------------------------------------------------------------------------
(* What the remote service answers *)

\* statuses the remote service answers with; 0 stands for fetch rejecting
Statuses == {200, 401, 429, 503}

\* the error a non-success outcome raises in the request function
ResponseError(status) ==
  IF status = 0 THEN MsgFetch ELSE handleAPIError(status)

\* generateTitleSuggestions' result: no option or one full option
TitleBodies == {<<>>, <<[title |-> "T", description |-> "D"]>>}

ConceptBodies == {"", "ConceptText", "json"}

OutlineBodies ==
  {[json |-> TRUE, n |-> MaxTitles], [json |-> FALSE, n |-> 2]}

\* a chapter's text: a sequence of words
FullText == <<"w">>
ChapterBodies == {FullText}

\* BookGenerator.stringifyConcept
stringifyConcept(obj) == "Title: Untitled"

\* the text generateOutline stores for a response
OutlineText(body) ==
  IF body.json
  THEN [k \in 1..body.n |->
          [kind |-> "chapter", marker |-> TRUE, title |-> TitleOf(k),
           desc |-> TRUE]]
  ELSE IF body.n = 0 THEN <<[kind |-> "comment", marker |-> FALSE,
                             title |-> "", desc |-> FALSE]>>
       ELSE [k \in 1..body.n |->
               [kind |-> "chapter", marker |-> TRUE, title |-> TitleOf(k),
                desc |-> TRUE]]

\* the project once generateConcept and generateOutline have succeeded,
\* the outline being JSON with ResumeTitles chapters
ResumeProject ==
  [concept |-> "ConceptText",
   tableOfContents |-> OutlineText([json |-> TRUE, n |-> ResumeTitles]),
   chapters |-> <<>>,
   metadata |-> [EmptyMetadata EXCEPT
                   !.title = "T", !.shortDescription = "D", !.suggestions = 1,
                   !.outlineJson =
                      [kind |-> "chapters",
                       chapters |-> [k \in 1..ResumeTitles |-> TitleOf(k)]]]]

----------------------------------------------------------------------------
(* One invocation of a stage method.  pc is its suspension point:          *)
(* "await" a response, "stream" a read of the body, "sleep" a backoff wait *)
(* of generateWithRetry, "delay" the inter-chapter sleep.  "thrown" is the *)
(* error leaving generateWithRetry, handled in the same step.              *)
(* lastOp labels the last step.  call: the step was a call of a stage      *)
(* method; result: "ignored" (returned at its guard), "started"            *)
(* (suspended), "ok" or "failed" (the method ended); start and index: the  *)
(* first and the current chapter index of generateChapters; count: the     *)
(* chapters it stored; before: the project when the method was called,     *)
(* for generateChapters when the current iteration began.                  *)

StageOps == {"generateConcept", "generateOutline", "generateChapters"}

OpNone ==
  [name |-> "step", call |-> FALSE, result |-> "", start |-> 0, index |-> 0,
   count |-> 0, before |-> EmptyProject]

IdleTask ==
  [pc |-> "idle", op |-> "none", call |-> "none", attempt |-> 0,
   model |-> "", titles |-> <<>>, i |-> 0, startIndex |-> 0,
   aggregated |-> <<>>, err |-> MsgNone, isCall |-> FALSE,
   before |-> EmptyProject, count |-> 0]

\* the state a step works on: project, generation state, storage, the
\* invocation, the key, the requests sent and the label of the step
World(s) ==
  [p |-> currentProject, g |-> generationState, store |-> lastProject,
   t |-> tasks[s], key |-> apiKey, out |-> {}, res |-> OpNone]

\* BookGenerator.saveProject with StorageManager.saveProject
saveProject(W) ==
  IF \/ W.p.concept # ""
     \/ W.p.tableOfContents # <<>>
     \/ Len(W.p.chapters) > 0
  THEN [W EXCEPT !.store = [present |-> TRUE, project |-> JsonRoundTrip(W.p)]]
  ELSE W

\* EndStage without `this.generationState.isGenerating = false`
EndStageFlagKept(W, result, err) ==
  [W EXCEPT !.t = IdleTask,
            !.res = [name |-> W.t.op, call |-> W.t.isCall, result |-> result,
                     start |-> W.t.startIndex, index |-> W.t.i,
                     count |-> W.t.count, before |-> W.t.before]]

\* the catch and finally blocks of a stage method, or its normal end
EndStage(W, result, err) ==
  [W EXCEPT !.g.isGenerating = FALSE,
            !.t = IdleTask,
            !.res = [name |-> W.t.op, call |-> W.t.isCall, result |-> result,
                     start |-> W.t.startIndex, index |-> W.t.i,
                     count |-> W.t.count, before |-> W.t.before]]

\* generateWithRetry's catch block inside an invocation
Catch(W, msg) ==
  LET d == RetryCatch(msg, W.t.attempt, maxRetries) IN
  IF d.next = "sleep"
  THEN [W EXCEPT !.t.pc = "sleep"]
  ELSE [W EXCEPT !.t.pc = "thrown", !.t.err = msg]

\* generateWithRetry's try block: fn() runs up to its fetch
Attempt(W) ==
  LET r == ApiCall(W.t.call, W.key, W.t.model, W.t.i) IN
  IF r.err = MsgNone
  THEN [W EXCEPT !.out = @ \cup r.req, !.t.pc = "await",
                 !.t.aggregated = <<>>]
  ELSE Catch(W, r.err)

\* generateConcept from the call of apiManager.generateConcept on
ContinueConcept(W, model) ==
  LET W1 == Attempt([W EXCEPT !.t.call = "concept", !.t.attempt = 1,
                              !.t.model = model])
  IN IF W1.t.pc = "thrown" THEN EndStage(W1, "failed", W1.t.err) ELSE W1

\* an error leaves generateWithRetry: ensureTitleAndDescription swallows
\* it, the stage methods report it
Settle(W, model) ==
  IF W.t.pc # "thrown" THEN W
  ELSE IF W.t.call = "titles" THEN ContinueConcept(W, model)
       ELSE EndStage(W, "failed", W.t.err)

\* BeginChapter without `this.generationState.chapterIndex = i`
BeginChapterCursorKept(W, i, model) ==
  Settle(Attempt(
    [W EXCEPT !.t.before = W.p,
              !.p.chapters =
                 IF ChapterMissing(@, i)
                 THEN SetChapter(@, i, [kind |-> "chapter",
                                        title |-> W.t.titles[i + 1],
                                        content |-> <<>>, wordCount |-> 0])
                 ELSE @,
              !.t.call = "chapter", !.t.i = i, !.t.model = model,
              !.t.attempt = 1]), model)

\* the head of generateChapters' loop body for index i, up to the request
BeginChapter(W, i, model) ==
  Settle(Attempt(
    [W EXCEPT !.g.chapterIndex = i,
              !.t.before = W.p,
              !.p.chapters =
                 IF ChapterMissing(@, i)
                 THEN SetChapter(@, i, [kind |-> "chapter",
                                        title |-> W.t.titles[i + 1],
                                        content |-> <<>>, wordCount |-> 0])
                 ELSE @,
              !.t.call = "chapter", !.t.i = i, !.t.model = model,
              !.t.attempt = 1]), model)

\* generateChapters after the inter-chapter sleep: the break test, i++, and
\* the loop test
AfterDelay(W, model) ==
  IF ~W.g.autoGenerate /\ W.t.i = W.t.startIndex
  THEN EndStage(W, "ok", MsgNone)
  ELSE IF W.t.i + 1 < Len(W.t.titles)
       THEN BeginChapter(W, W.t.i + 1, model)
       ELSE EndStage(W, "ok", MsgNone)

\* generateChapters from the return of apiManager.generateChapter to the
\* inter-chapter sleep
ChapterDone(W, text, model) ==
  LET i == W.t.i
      title == IF ChapterMissing(W.p.chapters, i) THEN "undefined"
               ELSE W.p.chapters[i + 1].title
      W1 == saveProject(
              [W EXCEPT !.p.chapters =
                           SetChapter(@, i, [kind |-> "chapter",
                                             title |-> title,
                                             content |-> text,
                                             wordCount |-> countWords(text)]),
                        !.t.count = @ + 1,
                        !.res = [OpNone EXCEPT !.name = "chapterSaved",
                                               !.index = i]])
  IN IF i < Len(W.t.titles) - 1
     THEN [W1 EXCEPT !.t.pc = "delay"]
     ELSE AfterDelay(W1, model)

\* what the stage does with the text apiManager returned
OnText(W, body, model) ==
  CASE W.t.call = "titles" ->
         ContinueConcept(
           IF Len(body) > 0
           THEN saveProject(
                  [W EXCEPT !.p.metadata.suggestions = Len(body),
                            !.p.metadata.title = body[1].title,
                            !.p.metadata.shortDescription =
                               body[1].description])
           ELSE W, model)
    [] W.t.call = "concept" ->
         EndStage(
           saveProject(
             IF useJsonConceptWhenAvailable /\ body = "json"
             THEN [W EXCEPT !.p.concept = stringifyConcept(body),
                            !.p.metadata.conceptJson = TRUE]
             ELSE [W EXCEPT !.p.concept = body]), "ok", MsgNone)
    [] W.t.call = "outline" ->
         EndStage(
           saveProject(
             IF body.json
             THEN [W EXCEPT !.p.tableOfContents = OutlineText(body),
                            !.p.metadata.outlineJson =
                               [kind |-> "chapters",
                                chapters |-> [k \in 1..body.n |-> TitleOf(k)]]]
             ELSE [W EXCEPT !.p.tableOfContents = OutlineText(body)]),
           "ok", MsgNone)
    [] OTHER -> ChapterDone(W, body, model)

BodiesFor(call) ==
  CASE call = "titles" -> TitleBodies
    [] call = "concept" -> ConceptBodies
    [] call = "outline" -> OutlineBodies
    [] OTHER -> ChapterBodies

----------------------------------------------------------------------------
(* The actions of the pipeline *)

Slots == 1..MaxTasks

\* a stage method that gets past its guard runs as a new invocation
FreeSlots == {s \in Slots : tasks[s].pc = "idle"}
FreeSlot == CHOOSE s \in FreeSlots : \A r \in FreeSlots : s <= r

InFlight == {s \in Slots : tasks[s].pc # "idle"}

\* the step writes back what it worked on
Commit(s, W) ==
  /\ currentProject' = W.p
  /\ generationState' = W.g
  /\ lastProject' = W.store
  /\ tasks' = [tasks EXCEPT ![s] = [W.t EXCEPT !.isCall = FALSE]]
  /\ sent' = W.out
  /\ lastOp' = W.res
  /\ UNCHANGED <<apiKey, storedKey, keyModalOpen, retry, stream, dispatch, calc, store, legacy>>

\* a stage method returns at its first line: the call is all that happened
Return(op) ==
  /\ lastOp' = [OpNone EXCEPT !.name = op, !.call = TRUE,
                              !.result = "ignored"]
  /\ sent' = {}
  /\ UNCHANGED <<apiKey, storedKey, keyModalOpen, currentProject,
                 generationState, lastProject, tasks, retry, stream, dispatch, calc, store, legacy>>

\* a stage method got past its guard: it ends in W or is suspended
Called(s, W) ==
  Commit(s, IF W.t.pc = "idle" THEN W
            ELSE [W EXCEPT !.res = [OpNone EXCEPT !.name = W.t.op,
                                                  !.call = TRUE,
                                                  !.result = "started",
                                                  !.start = W.t.startIndex,
                                                  !.index = W.t.i]])

\* the guard left out
ReentrancyGuardOff(g) == FALSE

\* `if (this.generationState.isGenerating) return`
ReentrancyGuard(g) == g.isGenerating

\* the invocation as it starts: isGenerating = true
Enter(s, op) ==
  [World(s) EXCEPT !.g.isGenerating = TRUE,
                   !.t = [IdleTask EXCEPT !.op = op, !.isCall = TRUE,
                                          !.before = currentProject]]

\* BookGenerator.generateConcept, up to its first suspension;
\* ensureTitleAndDescription comes first
generateConcept(model) ==
  IF ReentrancyGuard(generationState) THEN Return("generateConcept")
  ELSE /\ FreeSlots # {}
       /\ LET s == FreeSlot
              W == Enter(s, "generateConcept")
          IN Called(s,
               IF /\ currentProject.metadata.title # ""
                  /\ currentProject.metadata.shortDescription # ""
               THEN ContinueConcept(W, model)
               ELSE Settle(Attempt([W EXCEPT !.t.call = "titles",
                                             !.t.attempt = 1,
                                             !.t.model = model]), model))

\* BookGenerator.generateOutline, up to its first suspension
generateOutline(model) ==
  IF ReentrancyGuard(generationState) \/ currentProject.concept = ""
  THEN Return("generateOutline")
  ELSE /\ FreeSlots # {}
       /\ LET s == FreeSlot
              W == Enter(s, "generateOutline")
          IN Called(s, Settle(Attempt([W EXCEPT !.t.call = "outline",
                                                !.t.attempt = 1,
                                                !.t.model = model]), model))

\* the test left out
NoChaptersFoundOff(chapters) == FALSE

\* `if (totalChapters === 0) throw new Error('No chapters found ...')`
NoChaptersFound(chapters) == Len(chapters) = 0

\* BookGenerator.generateChapters, up to its first suspension
generateChapters(model, autoGen) ==
  IF ReentrancyGuard(generationState) \/ currentProject.tableOfContents = <<>>
  THEN Return("generateChapters")
  ELSE /\ FreeSlots # {}
       /\ LET s == FreeSlot
              chapters == parseTableOfContents(currentProject)
              W == [Enter(s, "generateChapters") EXCEPT
                      !.g.autoGenerate = autoGen,
                      !.t.titles = chapters,
                      !.t.startIndex = generationState.chapterIndex,
                      !.t.i = generationState.chapterIndex]
          IN Called(s,
               IF NoChaptersFound(chapters)
               THEN EndStage(W, "failed", MsgNoChapters)
               ELSE IF W.t.startIndex < Len(chapters)
                    THEN BeginChapter(W, W.t.startIndex, model)
                    ELSE EndStage(W, "ok", MsgNone))

\* the response to the request of invocation s arrives
Response(s, status, body, model) ==
  /\ tasks[s].pc = "await"
  /\ LET W == World(s) IN
     Commit(s,
       IF status # 200 THEN Settle(Catch(W, ResponseError(status)), model)
       ELSE IF IsStreamCall(W.t.call, W.t.model)
            THEN [W EXCEPT !.t.pc = "stream"]
            ELSE OnText(W, body, model))

\* a frame with a token arrives: onToken(token, aggregated, false); the
\* TypeError of a missing chapters[i] is swallowed by the reader's catch
StreamToken(s) ==
  /\ tasks[s].pc = "stream"
  /\ Len(tasks[s].aggregated) < Len(FullText)
  /\ LET W == World(s)
         agg == Append(W.t.aggregated, FullText[Len(W.t.aggregated) + 1])
     IN Commit(s,
          IF ChapterMissing(W.p.chapters, W.t.i)
          THEN [W EXCEPT !.t.aggregated = agg]
          ELSE [W EXCEPT !.t.aggregated = agg,
                         !.p.chapters[W.t.i + 1].content = agg])

\* the [DONE] frame arrives after the text: onToken('', aggregated, true), then the
\* aggregate is returned to generateChapters
StreamDone(s, model) ==
  /\ tasks[s].pc = "stream"
  /\ tasks[s].aggregated = FullText
  /\ LET W == World(s)
         agg == W.t.aggregated
     IN Commit(s,
          IF ChapterMissing(W.p.chapters, W.t.i)
          THEN Settle(Catch(W, MsgTypeError), model)
          ELSE ChapterDone(
                 [W EXCEPT !.p.chapters[W.t.i + 1].content = agg,
                           !.p.chapters[W.t.i + 1].wordCount = countWords(agg)],
                 agg, model))

\* the body ends after the text without [DONE]: the aggregate is returned
StreamEnd(s, model) ==
  /\ tasks[s].pc = "stream"
  /\ tasks[s].aggregated = FullText
  /\ LET W == World(s) IN Commit(s, ChapterDone(W, W.t.aggregated, model))

\* reading the body fails: the error reaches generateWithRetry
StreamFail(s, model) ==
  /\ tasks[s].pc = "stream"
  /\ Commit(s, Settle(Catch(World(s), MsgFetch), model))

\* a backoff sleep of generateWithRetry ends: attempt++ and the next try
WakeRetry(s, model) ==
  /\ tasks[s].pc = "sleep"
  /\ LET W == World(s) IN
     Commit(s, Settle(Attempt([W EXCEPT !.t.attempt = @ + 1]), model))

\* the inter-chapter sleep ends
DelayDone(s, model) ==
  /\ tasks[s].pc = "delay"
  /\ Commit(s, AfterDelay(World(s), model))

\* BookGenerator.saveApiKey, the button of the key dialog: setApiKey,
\* testApiKey ending as probe says, storageManager.saveApiKey and
\* modal.hide on both paths
saveApiKey(key, probe) ==
  /\ keyModalOpen
  /\ keyModalOpen' = FALSE
  /\ apiKey' = IF ValidKeyFormat(key) THEN key ELSE apiKey
  /\ sent' = IF ValidKeyFormat(key) THEN testApiKey(key, probe.n) ELSE {}
  /\ storedKey' = key
  /\ lastOp' = OpNone
  /\ UNCHANGED <<currentProject, generationState, lastProject, tasks,
                 retry, stream, dispatch, calc, store, legacy>>

\* the chapter whose save was the last step before a reload, else -1
JustSaved ==
  IF lastOp.name = "chapterSaved" THEN lastOp.index
  ELSE IF lastOp.name = "generateChapters" /\ lastOp.result = "ok"
          /\ lastOp.count > 0
       THEN lastOp.index
       ELSE -1

\* the page is reloaded: every invocation is lost, the constructor and
\* initialize run: checkApiKey (testApiKey ending as probe says), then
\* loadLastProject (confirmed: the user accepts)
Reload(confirmed, probe) ==
  LET keyOk == storedKey # NoKey /\ ValidKeyFormat(storedKey)
      hydrate == /\ lastProject.present
                 /\ lastProject.project.concept # ""
                 /\ confirmed
  IN /\ apiKey' = IF keyOk THEN storedKey ELSE NoKey
     /\ sent' = IF keyOk THEN testApiKey(storedKey, probe.n) ELSE {}
     /\ keyModalOpen' = (~keyOk \/ ~probe.ok)
     /\ currentProject' = IF hydrate THEN lastProject.project ELSE EmptyProject
     /\ generationState' = InitialGenerationState
     /\ tasks' = [s \in Slots |-> IdleTask]
     /\ lastOp' = [OpNone EXCEPT !.name = "reload",
                                 !.result = IF hydrate THEN "hydrated"
                                            ELSE "fresh",
                                 !.index = IF hydrate THEN JustSaved ELSE -1]
     /\ UNCHANGED <<storedKey, lastProject, retry, stream, dispatch, calc, store, legacy>>

----------------------------------------------------------------------------
(* The handlers that edit the project *)

\* array.splice(index, 1)
RemoveAt(array, index) ==
  [k \in 1..(Len(array) - 1) |->
     IF k <= index THEN array[k] ELSE array[k + 1]]

\* BookGenerator.deleteChapter, the user confirming; index is the one of a
\* chapter that is displayed
deleteChapter(index) ==
  /\ index < Len(currentProject.chapters)
  /\ LET W == saveProject(
                [World(1) EXCEPT !.p.chapters = RemoveAt(@, index)])
     IN /\ currentProject' = W.p
        /\ lastProject' = W.store
  /\ sent' = {}
  /\ lastOp' = [OpNone EXCEPT !.name = "deleteChapter", !.call = TRUE,
                              !.result = "ok", !.index = index]
  /\ UNCHANGED <<apiKey, storedKey, keyModalOpen, generationState, tasks,
                 retry, stream, dispatch, calc, store, legacy>>

\* BookGenerator.resetProject, the user confirming.  Its saveProject call
\* finds the project empty and stores nothing.
resetProject ==
  /\ LET W == saveProject(
                [World(1) EXCEPT !.p = EmptyProject,
                                 !.g = InitialGenerationState])
     IN /\ currentProject' = W.p
        /\ generationState' = W.g
        /\ lastProject' = W.store
  /\ sent' = {}
  /\ lastOp' = [OpNone EXCEPT !.name = "resetProject", !.call = TRUE,
                              !.result = "ok"]
  /\ UNCHANGED <<apiKey, storedKey, keyModalOpen, tasks, retry, stream,
                 dispatch, calc, store, legacy>>

\* the callback of setupAutoSave's timer; settings.autoSave is true by
\* default and no control changes it.  The Ctrl+S handler makes the same
\* call of saveProject.
autoSave ==
  /\ lastProject' = saveProject(World(1)).store
  /\ sent' = {}
  /\ lastOp' = [OpNone EXCEPT !.name = "autoSave"]
  /\ UNCHANGED <<apiKey, storedKey, keyModalOpen, currentProject,
                 generationState, tasks, retry, stream, dispatch, calc, store, legacy>>

\* the project once generateConcept and generateOutline have succeeded,
\* the outline being JSON with MaxTitles chapters
EditProject ==
  [ResumeProject EXCEPT
     !.tableOfContents = OutlineText([json |-> TRUE, n |-> MaxTitles]),
     !.metadata.outlineJson =
        [kind |-> "chapters",
         chapters |-> [k \in 1..MaxTitles |-> TitleOf(k)]]]

----------------------------------------------------------------------------
(* The request functions on their own (SpecDispatch): a call of one of the *)
(* closures of generateTitleSuggestions, generateConcept, generateOutline, *)
(* generateChapter or of generateImage, then the response.                 *)
(* dispatch.phase: "off" outside SpecDispatch, "idle" between calls,       *)
(* "await" while a fetch is pending.  fn is the request function that is   *)
(* running, retried tells generateImage's second fetch, response is the    *)
(* response the last step received, outcome/message how the last call      *)
(* ended.                                                                  *)

\* Headers.get of a header the response does not carry
Absent == "null"

\* x-ratelimit-remaining-requests and x-ratelimit-reset-requests
RateLimitHeaders ==
  {[remaining |-> Absent, resetTime |-> Absent],
   [remaining |-> "9", resetTime |-> "6s"]}

\* retry-after
RetryAfterHeaders == {Absent, "30"}

\* statuses of the responses in SpecDispatch
DispatchStatuses == {200, 400, 401, 429, 500, 502, 503}

MsgUpstream == "Bad request"
MsgUnknownParameter == "Unknown parameter: 'response_format'"
MsgNullRead == "Cannot read properties of null"
MsgSyntax == "Unexpected end of JSON input"
MsgNoImage == "Image generation returned no data"

\* bodies of non-success responses: not JSON, the JSON null, an object
\* without error.message, an object with one
ErrorBodies ==
  {[json |-> "invalid", message |-> ""],
   [json |-> "null", message |-> ""],
   [json |-> "object", message |-> ""],
   [json |-> "object", message |-> MsgUpstream],
   [json |-> "object", message |-> MsgUnknownParameter]}

\* bodies of success responses; message stands for the generated content
SuccessBodies ==
  {[json |-> "invalid", message |-> ""],
   [json |-> "null", message |-> ""],
   [json |-> "object", message |-> ""],
   [json |-> "object", message |-> "content"]}

Responses ==
  {[status |-> st, headers |-> h, retryAfter |-> ra, body |-> b] :
     st \in DispatchStatuses, h \in RateLimitHeaders, ra \in RetryAfterHeaders,
     b \in ErrorBodies \cup SuccessBodies}

NoResponse ==
  [status |-> 0, headers |-> [remaining |-> Absent, resetTime |-> Absent],
   retryAfter |-> Absent, body |-> [json |-> "invalid", message |-> ""]]

\* the constructor's rateLimitInfo
NoRateLimitInfo == [remaining |-> Absent, resetTime |-> Absent]

\* APIManager.updateRateLimitInfo: rateLimitInfo after the call
updateRateLimitInfo(response) ==
  [remaining |-> response.headers.remaining,
   resetTime |-> response.headers.resetTime]

\* response.json().catch(() => ({})): a body that is not JSON, or that was
\* read before, gives the empty object
ErrorData(response, bodyUsed) ==
  IF bodyUsed \/ response.body.json = "invalid"
  THEN [json |-> "object", message |-> ""]
  ELSE response.body

\* APIManager.handleAPIError: the message of the error it throws, as the
\* pieces of the template string
handleAPIErrorOf(response, bodyUsed) ==
  LET errorData == ErrorData(response, bodyUsed)
  IN CASE response.status = 401 -> <<MsgInvalidKey>>
       [] response.status = 429 ->
            <<"Rate limit exceeded. Please wait ",
              IF response.retryAfter = Absent THEN "60"
              ELSE response.retryAfter,
              " seconds before trying again.">>
       [] response.status \in {500, 502, 503} -> <<MsgUnavailable>>
       [] OTHER ->
            IF errorData.json = "null" THEN <<MsgNullRead>>
            ELSE IF errorData.message # "" THEN <<errorData.message>>
            ELSE <<"API request failed with status ",
                   ToString(response.status)>>

DispatchOff ==
  [phase |-> "off", fn |-> "none", retried |-> FALSE,
   rateLimitInfo |-> NoRateLimitInfo, response |-> NoResponse,
   outcome |-> "none", message |-> <<>>, calls |-> 0, probing |-> 0,
   denied |-> 0]

DispatchStart == [DispatchOff EXCEPT !.phase = "idle"]

\* the calls SpecDispatch makes
DispatchCalls == {"titles", "concept", "outline", "chapter", "image"}

\* model identifiers passed by the caller: CONFIG.MODELS and two others
DispatchModels == DOMAIN MODELS \cup {"my-model", "constructor"}

\* the request function a request was built by
FnOf(req) ==
  CASE req.endpoint = "images" -> "generateImage"
    [] req.endpoint = "responses" -> "makeResponsesRequest"
    [] req.stream -> "streamChatRequest"
    [] OTHER -> "makeChatRequest"

\* how a request function ends
Ended(d, outcome, message) ==
  [d EXCEPT !.phase = "idle", !.outcome = outcome, !.message = message]

\* makeChatRequest, streamChatRequest and makeResponsesRequest from the
\* response on
AfterFetch(d, response) ==
  LET u == [d EXCEPT !.rateLimitInfo = updateRateLimitInfo(response),
                     !.response = response]
  IN IF response.status # 200
     THEN Ended(u, "raised", handleAPIErrorOf(response, FALSE))
     ELSE IF d.fn = "streamChatRequest"
          THEN Ended(u, "returned", <<>>)
          ELSE CASE response.body.json = "invalid" ->
                      Ended(u, "raised", <<MsgSyntax>>)
                 [] response.body.json = "null" ->
                      Ended(u, "raised", <<MsgNullRead>>)
                 [] OTHER -> Ended(u, "returned", <<response.body.message>>)

\* errMsg.includes('unknown parameter') && errMsg.includes('response_format')
RejectsResponseFormat(message) == message = MsgUnknownParameter

\* generateImage from a response on; the error body is read before
\* handleAPIError is called
AfterImageFetch(d, response) ==
  LET u == [d EXCEPT !.response = response]
  IN CASE response.status = 200 ->
            CASE response.body.json = "invalid" ->
                   Ended(u, "raised", <<MsgSyntax>>)
              [] response.body.json = "null" ->
                   Ended(u, "raised", <<MsgNullRead>>)
              [] response.body.message = "" ->
                   Ended(u, "raised", <<MsgNoImage>>)
              [] OTHER -> Ended(u, "returned", <<response.body.message>>)
       [] d.retried -> Ended(u, "raised", handleAPIErrorOf(response, FALSE))
       [] response.body.json = "null" -> Ended(u, "raised", <<MsgNullRead>>)
       [] RejectsResponseFormat(ErrorData(response, FALSE).message) ->
            [u EXCEPT !.retried = TRUE]
       [] OTHER -> Ended(u, "raised", handleAPIErrorOf(response, TRUE))

\* generateImage's second request
ImageRetryRequest(key) ==
  {[endpoint |-> "images", model |-> "gpt-image-1",
    messages |-> [kind |-> "image", index |-> 0], stream |-> FALSE,
    response_format |-> "none", auth |-> key]}

\* a request function is called
DispatchCall(call, model) ==
  /\ dispatch.phase = "idle"
  /\ dispatch.calls < MaxCalls
  /\ LET r == IF call = "image"
              THEN generateImage(apiKey, [kind |-> "image", index |-> 0])
              ELSE ApiCall(call, apiKey, model, 0)
         d == [dispatch EXCEPT !.calls = @ + 1, !.fn = "none",
                               !.retried = FALSE, !.response = NoResponse,
                               !.outcome = "none", !.message = <<>>,
                               !.probing = 0, !.denied = 0]
     IN /\ sent' = r.req
        /\ dispatch' =
             IF r.err # MsgNone THEN Ended(d, "raised", <<r.err>>)
             ELSE [d EXCEPT !.phase = "await",
                            !.fn = FnOf(CHOOSE q \in r.req : TRUE)]
  /\ UNCHANGED <<apiKey, storedKey, keyModalOpen, currentProject,
                 generationState, lastProject, tasks, lastOp, retry, stream, calc,
                 store, legacy>>

MsgProbeFailed == "API test failed for all tried models."

\* the request testApiKey sends to candidate k
ProbeRequest(key, k) == testApiKey(key, k) \ testApiKey(key, k - 1)

\* APIManager.testApiKey up to the fetch of its first probe; without a key
\* every probe throws before its fetch and is caught
DispatchTestApiKey ==
  /\ dispatch.phase = "idle"
  /\ dispatch.calls < MaxCalls
  /\ LET d == [dispatch EXCEPT !.calls = @ + 1, !.fn = "none",
                               !.retried = FALSE, !.response = NoResponse,
                               !.outcome = "none", !.message = <<>>,
                               !.probing = 1, !.denied = 0]
     IN /\ sent' = ProbeRequest(apiKey, 1)
        /\ dispatch' =
             IF apiKey = NoKey THEN Ended(d, "raised", <<MsgProbeFailed>>)
             ELSE [d EXCEPT !.phase = "await",
                            !.fn = FnOf(CHOOSE q \in sent' : TRUE)]
  /\ UNCHANGED <<apiKey, storedKey, keyModalOpen, currentProject,
                 generationState, lastProject, tasks, lastOp, retry, stream, calc,
                 store, legacy>>

\* the probe of candidate dispatch.probing is answered; matches: the text
\* returned passes /api key is valid/i.  An error of the probe is caught
\* and the next candidate tried; after the last one testApiKey throws.
DispatchProbeResponse(response, matches) ==
  /\ dispatch.phase = "await"
  /\ dispatch.probing > 0
  /\ response.body \in
       (IF response.status = 200 THEN SuccessBodies ELSE ErrorBodies)
  /\ LET a == AfterFetch(dispatch, response)
         ok == /\ a.outcome = "returned"
               /\ a.message # <<"">>
               /\ matches
         u == [a EXCEPT !.denied = IF response.status = 401 THEN @ + 1 ELSE @]
     IN /\ sent' = IF ~ok /\ dispatch.probing < Len(probeCandidates)
                   THEN ProbeRequest(apiKey, dispatch.probing + 1)
                   ELSE {}
        /\ dispatch' =
             IF ok THEN Ended(u, "returned", <<>>)
             ELSE IF dispatch.probing < Len(probeCandidates)
                  THEN [u EXCEPT !.phase = "await",
                                 !.fn = FnOf(CHOOSE q \in sent' : TRUE),
                                 !.outcome = "none", !.message = <<>>,
                                 !.probing = @ + 1]
                  ELSE Ended(u, "raised", <<MsgProbeFailed>>)
  /\ UNCHANGED <<apiKey, storedKey, keyModalOpen, currentProject,
                 generationState, lastProject, tasks, lastOp, retry, stream, calc,
                 store, legacy>>

\* fetch resolves
DispatchResponse(response) ==
  /\ dispatch.phase = "await"
  /\ dispatch.probing = 0
  /\ response.body \in
       (IF response.status = 200 THEN SuccessBodies ELSE ErrorBodies)
  /\ dispatch' = IF dispatch.fn = "generateImage"
                 THEN AfterImageFetch(dispatch, response)
                 ELSE AfterFetch(dispatch, response)
  /\ sent' = IF dispatch'.phase = "await" THEN ImageRetryRequest(apiKey)
             ELSE {}
  /\ UNCHANGED <<apiKey, storedKey, keyModalOpen, currentProject,
                 generationState, lastProject, tasks, lastOp, retry, stream, calc,
                 store, legacy>>

----------------------------------------------------------------------------
(* getChapterContext and parseTableOfContents on their own.  A text is a   *)
(* sequence of symbols: a word, a digit, a blank, a punctuation mark.      *)
(* calc.phase: "off" outside SpecContext and SpecToc, "input" before the   *)
(* call, "done" after it.                                                  *)

\* ch.content.substring(0, 200)
PreviewLength == 200

Sentinel == "This is the first chapter"
Separator == "\n\n"
Ellipsis == "..."
Colon == ": "

\* a content shorter than the preview and one longer by one symbol
ShortContent == <<"a", "a">>
LongContent == [k \in 1..(PreviewLength + 1) |->
                  IF k <= PreviewLength THEN "a" ELSE "z"]

\* the chapters arrays of SpecContext: slot k is empty or holds chapter k
ChapterAt(k, content) ==
  [kind |-> "chapter", title |-> TitleOf(k), content |-> content,
   wordCount |-> countWords(content)]

ChapterArrays ==
  UNION {{a \in [1..n -> {"hole", "short", "long"}] : TRUE} : n \in 0..MaxChapters}

ArrayOf(a) ==
  [k \in DOMAIN a |->
     CASE a[k] = "hole" -> Hole
       [] a[k] = "short" -> ChapterAt(k, ShortContent)
       [] OTHER -> ChapterAt(k, LongContent)]

\* string.substring(0, n)
Substring(text, n) == SubSeq(text, 1, IF Len(text) < n THEN Len(text) ELSE n)

\* array.join(sep): an empty slot gives the empty string
RECURSIVE Join(_, _)
Join(pieces, sep) ==
  IF pieces = <<>> THEN <<>>
  ELSE IF Len(pieces) = 1 THEN pieces[1]
  ELSE pieces[1] \o <<sep>> \o Join(Tail(pieces), sep)

\* previousChapters with slice(0, chapterIndex + 1)
previousChaptersInclusive(chapters, chapterIndex) ==
  LET n == IF Len(chapters) < chapterIndex + 1 THEN Len(chapters)
           ELSE chapterIndex + 1
      pieces == [k \in 1..n |->
                   IF chapters[k] = Hole THEN <<>>
                   ELSE <<chapters[k].title, Colon>>
                        \o Substring(chapters[k].content, PreviewLength)
                        \o <<Ellipsis>>]
      joined == Join(pieces, Separator)
  IN IF joined = <<>> THEN <<Sentinel>> ELSE joined

\* the field previousChapters of getChapterContext's result:
\* chapters.slice(0, chapterIndex).map(...).join('\n\n') || sentinel;
\* map skips an empty slot
previousChapters(chapters, chapterIndex) ==
  LET n == IF Len(chapters) < chapterIndex THEN Len(chapters)
           ELSE chapterIndex
      pieces == [k \in 1..n |->
                   IF chapters[k] = Hole THEN <<>>
                   ELSE <<chapters[k].title, Colon>>
                        \o Substring(chapters[k].content, PreviewLength)
                        \o <<Ellipsis>>]
      joined == Join(pieces, Separator)
  IN IF joined = <<>> THEN <<Sentinel>> ELSE joined

\* BookGenerator.getChapterContext, without the book title
getChapterContext(project, chapterIndex) ==
  [concept |-> project.concept,
   previousChapters |-> previousChapters(project.chapters, chapterIndex)]

CalcOff == [phase |-> "off", fn |-> "none", input |-> <<>>, index |-> 0,
            result |-> <<>>,
            outlineJson |-> [kind |-> "none", chapters |-> <<>>],
            last |-> "none"]

\* getChapterContext(calc.index) is called on the project of calc.input
ContextCall ==
  /\ calc.phase = "input"
  /\ calc.fn = "getChapterContext"
  /\ calc' = [calc EXCEPT
                !.phase = "done",
                !.result = getChapterContext(
                             [EmptyProject EXCEPT !.chapters = calc.input],
                             calc.index).previousChapters]
  /\ UNCHANGED <<pipelineVars, retry, stream, dispatch, store, legacy>>

\* string.trim()
RECURSIVE TrimLeft(_)
TrimLeft(text) ==
  IF text # <<>> /\ Head(text) = " " THEN TrimLeft(Tail(text)) ELSE text

RECURSIVE TrimRight(_)
TrimRight(text) ==
  IF text # <<>> /\ text[Len(text)] = " "
  THEN TrimRight(SubSeq(text, 1, Len(text) - 1))
  ELSE text

Trim(text) == TrimRight(TrimLeft(text))

\* the number of leading symbols of text that are in set
RECURSIVE Span(_, _)
Span(text, set) ==
  IF text # <<>> /\ Head(text) \in set THEN 1 + Span(Tail(text), set) ELSE 0

Drop(text, n) == SubSeq(text, n + 1, Len(text))

\* /Chapter/i
Keyword == {"Chapter", "chapter", "CHAPTER"}
\* \d
Digits == {"0", "1", "2", "3"}

\* Where (?:Chapter\s+\d+:?\s*)? ends in a match of the whole pattern.
\* The group matches greedily; what follows, (.+?), needs one symbol, so
\* when the greedy match takes the whole line the matcher gives back the
\* last blank, else the colon, else the last of several digits, else the
\* group.
MarkerEnd(line) ==
  IF line = <<>> \/ Head(line) \notin Keyword THEN 0
  ELSE LET sp == Span(Drop(line, 1), {" "})
           dg == Span(Drop(line, 1 + sp), Digits)
           col == IF Span(Drop(line, 1 + sp + dg), {":"}) > 0 THEN 1 ELSE 0
           ts == Span(Drop(line, 1 + sp + dg + col), {" "})
           end == 1 + sp + dg + col + ts
       IN IF sp = 0 \/ dg = 0 THEN 0
          ELSE IF end < Len(line) THEN end
          ELSE IF ts > 0 \/ col = 1 \/ dg >= 2 THEN end - 1
          ELSE 0

\* (?:\s*-\s*.+)?$ matches what follows the first k symbols of rest
SuffixAt(rest, k) ==
  \/ k = Len(rest)
  \/ \E j \in (k + 1)..(Len(rest) - 1) :
       /\ rest[j] = "-"
       /\ \A q \in (k + 1)..(j - 1) : rest[q] = " "

\* match[1].trim(): (.+?) takes the fewest symbols, one at least, that let
\* the rest of the pattern match
ExtractTitle(line) ==
  LET rest == Drop(line, MarkerEnd(line))
      k == CHOOSE k \in 1..Len(rest) :
             /\ SuffixAt(rest, k)
             /\ \A h \in 1..(k - 1) : ~SuffixAt(rest, h)
  IN Trim(SubSeq(rest, 1, k))

\* parseTableOfContents when metadata.outlineJson has no chapters: text is
\* tableOfContents.split('\n')
RECURSIVE parseOutlineText(_)
parseOutlineText(text) ==
  IF text = <<>> THEN <<>>
  ELSE LET line == Trim(Head(text))
       IN IF line # <<>> /\ Head(line) # "#"
          THEN <<ExtractTitle(line)>> \o parseOutlineText(Tail(text))
          ELSE parseOutlineText(Tail(text))

\* lines of an outline text
TocLines ==
  {<<"#", " ", "Outline">>,
   <<"Chapter", " ", "1", ":", " ", "Intro", " ", "-", " ", "sets", " ",
     "the", " ", "scene">>,
   <<"chapter", " ", "2", " ", "Rising", " ", "Action">>,
   <<>>,
   <<" ", " ">>,
   <<" ", "Chapter", " ", "3", ":", " ", "Finale", " ">>,
   <<"Chapter", " ", "3", ":", " ", "Spider", "-", "Man", " ", "-", " ",
     "a", " ", "hero">>,
   <<"Epilogue">>,
   <<"Chapter", " ", "1", "2">>,
   <<"Chapter", " ", "1", ":">>}

OutlineTexts == UNION {[1..n -> TocLines] : n \in 0..MaxTocLines}

\* parseTableOfContents() is called on the outline text of calc.input
TocCall ==
  /\ calc.phase = "input"
  /\ calc.fn = "parseTableOfContents"
  /\ calc' = [calc EXCEPT !.phase = "done",
                          !.result = parseOutlineText(calc.input)]
  /\ UNCHANGED <<pipelineVars, retry, stream, dispatch, store, legacy>>

----------------------------------------------------------------------------
(* generateOutline's handling of the response and parseTableOfContents in  *)
(* full (SpecOutline).  calc.input is tableOfContents as its lines,        *)
(* calc.outlineJson is metadata.outlineJson, calc.last the kind of the     *)
(* last outline response, calc.fn the branch parseTableOfContents took.    *)

\* ch.title of an entry of the chapter list: a string or something else
RawTitles ==
  {[isString |-> TRUE, text |-> <<"Intro">>],
   [isString |-> TRUE, text |-> <<" ", "Finale", " ">>],
   [isString |-> TRUE, text |-> <<"Spider", "-", "Man">>],
   [isString |-> TRUE, text |-> <<>>],
   [isString |-> TRUE, text |-> <<" ">>],
   [isString |-> FALSE, text |-> <<>>]}

\* the chapter lists of a structured outline
ChapterLists == UNION {[1..n -> RawTitles] : n \in 0..MaxTocLines}

\* outline texts that are not JSON: empty, a heading alone, two chapter
\* lines under a heading, a bare title
PlainOutlines ==
  {<<>>,
   << <<"#", " ", "Outline">> >>,
   << <<"#", " ", "Outline">>,
      <<"Chapter", " ", "1", ":", " ", "Intro", " ", "-", " ", "sets", " ",
        "the", " ", "scene">>,
      <<"chapter", " ", "2", " ", "Rising", " ", "Action">> >>,
   << <<"Epilogue">> >>}

\* what generateOutline gets from the service: JSON with a chapter list,
\* other valid JSON, or a text that is not JSON
OutlineResponses ==
  {[kind |-> "chapters", chapters |-> l, text |-> <<>>] : l \in ChapterLists}
  \cup {[kind |-> "object", chapters |-> <<>>, text |-> << <<"{}">> >>]}
  \cup {[kind |-> "text", chapters |-> <<>>, text |-> t] : t \in PlainOutlines}

\* `Chapter ${ch.number}: ${ch.title} - ${ch.description}`
OutlineLine(k, ch) ==
  <<"Chapter", " ", ToString(k), ":", " ">>
  \o (IF ch.isString THEN ch.text ELSE <<"undefined">>)
  \o <<" ", "-", " ", "desc">>

\* generateOutline from the return of apiManager.generateOutline to the
\* assignment of tableOfContents: JSON.parse failing keeps the raw text and
\* leaves metadata.outlineJson as it was
OutlineStored(response) ==
  /\ calc.phase \in {"fresh", "once"}
  /\ calc' = [calc EXCEPT
                !.phase = IF calc.phase = "fresh" THEN "once" ELSE "twice",
                !.fn = "none",
                !.result = <<>>,
                !.last = response.kind,
                !.outlineJson =
                   IF response.kind = "text" THEN @
                   ELSE [kind |-> response.kind, chapters |-> response.chapters],
                !.input =
                   IF response.kind = "chapters"
                   THEN [k \in 1..Len(response.chapters) |->
                           OutlineLine(k, response.chapters[k])]
                   ELSE response.text]
  /\ UNCHANGED <<pipelineVars, retry, stream, dispatch, store, legacy>>

\* .map(ch => typeof ch.title === 'string' ? ch.title.trim() : '')
\* .filter(Boolean)
RECURSIVE StructuredTitles(_)
StructuredTitles(chapters) ==
  IF chapters = <<>> THEN <<>>
  ELSE LET ch == Head(chapters)
           title == IF ch.isString THEN Trim(ch.text) ELSE <<>>
       IN (IF title # <<>> THEN <<title>> ELSE <<>>)
          \o StructuredTitles(Tail(chapters))

\* parseTableOfContents without the test of metadata.outlineJson
UsesStructuredNever(outlineJson) == FALSE

\* `if (this.currentProject?.metadata?.outlineJson?.chapters)`: an array,
\* empty or not, is truthy
UsesStructured(outlineJson) == outlineJson.kind = "chapters"

\* BookGenerator.parseTableOfContents, as generateChapters calls it
TitlesResolved ==
  /\ calc.phase \in {"once", "twice"}
  /\ calc.fn = "none"
  /\ calc' = IF UsesStructured(calc.outlineJson)
             THEN [calc EXCEPT !.fn = "structured",
                               !.result =
                                  StructuredTitles(calc.outlineJson.chapters)]
             ELSE [calc EXCEPT !.fn = "text",
                               !.result = parseOutlineText(calc.input)]
  /\ UNCHANGED <<pipelineVars, retry, stream, dispatch, store, legacy>>

----------------------------------------------------------------------------
(* StorageManager on its own (SpecStorage).  store.disk is localStorage:   *)
(* the four items the class writes.  now is the clock Date reads; last is  *)
(* the last save called with its argument, prev the disk before it,        *)
(* result what it returned, repeated whether the save before it was the    *)
(* same call with the same argument.                                       *)

\* btoa(apiKey), atob(encrypted)
Btoa(text) == <<"base64", text>>
Atob(encoded) == encoded[2]

\* getItem of a key never set
NoItem == [present |-> FALSE]
Item(value) == [present |-> TRUE, value |-> value]

EmptyDisk ==
  [apiKey |-> NoItem, lastProject |-> NoItem, drafts |-> {},
   settings |-> NoItem]

\* getDefaultSettings, two of its fields
DefaultSettings == [autoSave |-> TRUE, theme |-> "light"]

\* the arguments of saveSettings
SettingsInputs ==
  {[theme |-> "dark"], [autoSave |-> FALSE]}

\* { ...a, ...b }
Spread(a, b) ==
  [k \in DOMAIN a \cup DOMAIN b |-> IF k \in DOMAIN b THEN b[k] ELSE a[k]]

\* StorageManager.getSettings
getSettings(disk) ==
  IF ~disk.settings.present THEN DefaultSettings
  ELSE Spread(DefaultSettings, disk.settings.value)

\* the projects handed to saveProject
StoredProjects ==
  {ResumeProject, [EmptyProject EXCEPT !.concept = "ConceptText"]}

\* StorageManager.saveDraft: the drafts item after it.  The draft id is
\* made of Date.now() and a hash of the project.
saveDraft(disk, projectData, now) ==
  LET draftId == <<"draft", now, projectData>>
  IN {dr \in disk.drafts : dr.id # draftId}
       \cup {[id |-> draftId, project |-> JsonRoundTrip(projectData),
              savedAt |-> now]}

StoreOff ==
  [phase |-> "off", available |-> FALSE, now |-> 0, disk |-> EmptyDisk,
   prev |-> EmptyDisk, last |-> [name |-> "none", data |-> <<>>, fits |-> FALSE,
             draftFits |-> FALSE],
   result |-> FALSE, repeated |-> FALSE]

\* how a save method ends; fits and draftFits: the setItem calls it makes
\* do not throw
Saved(name, data, fits, draftFits, disk) ==
  LET ok == store.available /\ fits
  IN [store EXCEPT
        !.disk = IF ok THEN disk ELSE @,
        !.prev = store.disk,
        !.last = [name |-> name, data |-> data, fits |-> fits,
                  draftFits |-> draftFits],
        !.result = ok,
        !.repeated = /\ store.last.name = name
                     /\ store.last.data = data
                     /\ store.last.fits = fits
                     /\ store.last.draftFits = draftFits]

\* StorageManager.saveApiKey; fits: setItem does not throw
StoreSaveApiKey(key, fits) ==
  /\ store.phase = "on"
  /\ store' = Saved("saveApiKey", key, fits, TRUE,
                    [store.disk EXCEPT !.apiKey = Item(Btoa(key))])
  /\ UNCHANGED <<pipelineVars, retry, stream, dispatch, calc, legacy>>

\* StorageManager.saveSettings
StoreSaveSettings(settings, fits) ==
  /\ store.phase = "on"
  /\ store' = Saved("saveSettings", settings, fits, TRUE,
                    [store.disk EXCEPT
                       !.settings =
                          Item(Spread(getSettings(store.disk), settings))])
  /\ UNCHANGED <<pipelineVars, retry, stream, dispatch, calc, legacy>>

\* StorageManager.saveProject; fits tells its own setItem, draftFits the
\* one of saveDraft, whose failure saveDraft catches
StoreSaveProject(projectData, fits, draftFits) ==
  /\ store.phase = "on"
  /\ store' =
       Saved("saveProject", projectData, fits, draftFits,
             [store.disk EXCEPT
                !.lastProject =
                   Item([project |-> JsonRoundTrip(projectData),
                         lastModified |-> store.now, version |-> "2.1"]),
                !.drafts = IF draftFits
                           THEN saveDraft(store.disk, projectData, store.now)
                           ELSE @])
  /\ UNCHANGED <<pipelineVars, retry, stream, dispatch, calc, legacy>>

\* time passes
Tick ==
  /\ store.phase = "on"
  /\ store.now < MaxClock
  /\ store' = [store EXCEPT !.now = @ + 1]
  /\ UNCHANGED <<pipelineVars, retry, stream, dispatch, calc, legacy>>

----------------------------------------------------------------------------
(* The specifications *)

Init ==
  /\ apiKey = NoKey
  /\ storedKey = NoKey
  /\ keyModalOpen = TRUE
  /\ currentProject = EmptyProject
  /\ generationState = InitialGenerationState
  /\ lastProject = NothingStored
  /\ tasks = [s \in Slots |-> IdleTask]
  /\ sent = {}
  /\ lastOp = [OpNone EXCEPT !.name = "init"]
  /\ retry = RetryOff
  /\ stream = StreamOff
  /\ dispatch = DispatchOff
  /\ calc = CalcOff
  /\ store = StoreOff
  /\ legacy = LegacyOff

Next ==
  \/ \E key \in KeyInputs, probe \in ProbeOutcomes : saveApiKey(key, probe)
  \/ \E model \in SelectableModels : generateConcept(model)
  \/ \E model \in SelectableModels : generateOutline(model)
  \/ \E model \in SelectableModels, autoGen \in BOOLEAN :
       generateChapters(model, autoGen)
  \/ \E s \in Slots, status \in Statuses, model \in SelectableModels :
       \E body \in BodiesFor(tasks[s].call) : Response(s, status, body, model)
  \/ \E s \in Slots : StreamToken(s)
  \/ \E s \in Slots, model \in SelectableModels : StreamDone(s, model)
  \/ \E s \in Slots, model \in SelectableModels : StreamEnd(s, model)
  \/ \E s \in Slots, model \in SelectableModels : StreamFail(s, model)
  \/ \E s \in Slots, model \in SelectableModels : WakeRetry(s, model)
  \/ \E s \in Slots, model \in SelectableModels : DelayDone(s, model)

Spec == Init /\ [][Next]_vars

\* SpecResume starts when the key is saved and valid and generateConcept
\* and generateOutline have succeeded
InitResume ==
  /\ apiKey = GoodKey
  /\ storedKey = GoodKey
  /\ keyModalOpen = FALSE
  /\ currentProject = ResumeProject
  /\ generationState = InitialGenerationState
  /\ lastProject = [present |-> TRUE, project |-> JsonRoundTrip(ResumeProject)]
  /\ tasks = [s \in Slots |-> IdleTask]
  /\ sent = {}
  /\ lastOp = [OpNone EXCEPT !.name = "init"]
  /\ retry = RetryOff
  /\ stream = StreamOff
  /\ dispatch = DispatchOff
  /\ calc = CalcOff
  /\ store = StoreOff
  /\ legacy = LegacyOff

NextResume ==
  \/ \E model \in SelectableModels, autoGen \in BOOLEAN :
       generateChapters(model, autoGen)
  \/ \E s \in Slots, status \in Statuses, model \in SelectableModels :
       \E body \in BodiesFor(tasks[s].call) : Response(s, status, body, model)
  \/ \E s \in Slots : StreamToken(s)
  \/ \E s \in Slots, model \in SelectableModels : StreamDone(s, model)
  \/ \E s \in Slots, model \in SelectableModels : StreamEnd(s, model)
  \/ \E s \in Slots, model \in SelectableModels : StreamFail(s, model)
  \/ \E s \in Slots, model \in SelectableModels : WakeRetry(s, model)
  \/ \E s \in Slots, model \in SelectableModels : DelayDone(s, model)
  \/ \E confirmed \in BOOLEAN, probe \in ProbeOutcomes :
       Reload(confirmed, probe)

SpecResume == InitResume /\ [][NextResume]_vars

\* SpecEdit starts like SpecResume, from an outline of MaxTitles chapters
InitEdit ==
  /\ apiKey = GoodKey
  /\ storedKey = GoodKey
  /\ keyModalOpen = FALSE
  /\ currentProject = EditProject
  /\ generationState = InitialGenerationState
  /\ lastProject = [present |-> TRUE, project |-> JsonRoundTrip(EditProject)]
  /\ tasks = [s \in Slots |-> IdleTask]
  /\ sent = {}
  /\ lastOp = [OpNone EXCEPT !.name = "init"]
  /\ retry = RetryOff
  /\ stream = StreamOff
  /\ dispatch = DispatchOff
  /\ calc = CalcOff
  /\ store = StoreOff
  /\ legacy = LegacyOff

NextEdit ==
  \/ NextResume
  \/ \E index \in 0..MaxTitles : deleteChapter(index)
  \/ resetProject

SpecEdit == InitEdit /\ [][NextEdit]_vars

\* the project once generateConcept has succeeded and generateOutline has
\* stored a text whose lines all start with '#'
UntitledProject ==
  [concept |-> "ConceptText",
   tableOfContents |-> OutlineText([json |-> FALSE, n |-> 0]),
   chapters |-> <<>>,
   metadata |-> [EmptyMetadata EXCEPT
                   !.title = "T", !.shortDescription = "D", !.suggestions = 1]]

\* SpecSave starts like SpecEdit, from either project; the auto-save timer
\* fires at any time
InitSave ==
  /\ apiKey = GoodKey
  /\ storedKey = GoodKey
  /\ keyModalOpen = FALSE
  /\ currentProject \in {EditProject, UntitledProject}
  /\ generationState = InitialGenerationState
  /\ lastProject = [present |-> TRUE, project |-> JsonRoundTrip(currentProject)]
  /\ tasks = [s \in Slots |-> IdleTask]
  /\ sent = {}
  /\ lastOp = [OpNone EXCEPT !.name = "init"]
  /\ retry = RetryOff
  /\ stream = StreamOff
  /\ dispatch = DispatchOff
  /\ calc = CalcOff
  /\ store = StoreOff
  /\ legacy = LegacyOff

NextSave ==
  \/ NextResume
  \/ autoSave

SpecSave == InitSave /\ [][NextSave]_vars

\* SpecFlag: the three stage methods from a page with a saved key and
\* either no project or one whose outline has no title.  The user keeps
\* one model; a request is answered with one text per kind or fails.
FlagModels == {"gpt-4o-mini"}

FlagStatuses == {200, 503}

FlagBody(call) ==
  CASE call = "titles" -> <<>>
    [] call = "concept" -> "ConceptText"
    [] call = "outline" -> [json |-> TRUE, n |-> MaxTitles]
    [] OTHER -> FullText

InitFlag ==
  /\ apiKey = GoodKey
  /\ storedKey = GoodKey
  /\ keyModalOpen = FALSE
  /\ currentProject \in {EmptyProject, UntitledProject}
  /\ generationState = InitialGenerationState
  /\ lastProject = IF currentProject = EmptyProject THEN NothingStored
                   ELSE [present |-> TRUE,
                         project |-> JsonRoundTrip(currentProject)]
  /\ tasks = [s \in Slots |-> IdleTask]
  /\ sent = {}
  /\ lastOp = [OpNone EXCEPT !.name = "init"]
  /\ retry = RetryOff
  /\ stream = StreamOff
  /\ dispatch = DispatchOff
  /\ calc = CalcOff
  /\ store = StoreOff
  /\ legacy = LegacyOff

\* the steps of the invocation in flight: a response or a failure of the
\* pending request, a read of a streamed body, the end of a sleep
FlagStep ==
  \/ \E s \in Slots, status \in FlagStatuses, model \in FlagModels :
       Response(s, status, FlagBody(tasks[s].call), model)
  \/ \E s \in Slots : StreamToken(s)
  \/ \E s \in Slots, model \in FlagModels : StreamDone(s, model)
  \/ \E s \in Slots, model \in FlagModels : StreamEnd(s, model)
  \/ \E s \in Slots, model \in FlagModels : StreamFail(s, model)
  \/ \E s \in Slots, model \in FlagModels : WakeRetry(s, model)
  \/ \E s \in Slots, model \in FlagModels : DelayDone(s, model)

NextFlag ==
  \/ \E model \in FlagModels : generateConcept(model)
  \/ \E model \in FlagModels : generateOutline(model)
  \/ \E model \in FlagModels, autoGen \in BOOLEAN :
       generateChapters(model, autoGen)
  \/ FlagStep

\* every request returns or fails, every read of a streamed body ends and
\* every timer fires
SpecFlag == InitFlag /\ [][NextFlag]_vars /\ WF_vars(FlagStep)

InitRetry ==
  /\ apiKey = NoKey
  /\ storedKey = NoKey
  /\ keyModalOpen = TRUE
  /\ currentProject = EmptyProject
  /\ generationState = InitialGenerationState
  /\ lastProject = NothingStored
  /\ tasks = [s \in Slots |-> IdleTask]
  /\ sent = {}
  /\ lastOp = [OpNone EXCEPT !.name = "init"]
  /\ \E maxR \in 1..MaxRetriesArg : retry = RetryStart(maxR)
  /\ stream = StreamOff
  /\ dispatch = DispatchOff
  /\ calc = CalcOff
  /\ store = StoreOff
  /\ legacy = LegacyOff

NextRetry ==
  \/ \E msg \in ErrorMessages : RetryFnFails(msg)
  \/ RetryFnReturns
  \/ RetryWake

SpecRetry == InitRetry /\ [][NextRetry]_vars

\* SpecRetry where every call of fn settles and every sleep ends
SpecRetryLive == SpecRetry /\ WF_vars(NextRetry)

InitStream ==
  /\ apiKey = NoKey
  /\ storedKey = NoKey
  /\ keyModalOpen = TRUE
  /\ currentProject = EmptyProject
  /\ generationState = InitialGenerationState
  /\ lastProject = NothingStored
  /\ tasks = [s \in Slots |-> IdleTask]
  /\ sent = {}
  /\ lastOp = [OpNone EXCEPT !.name = "init"]
  /\ retry = RetryOff
  /\ \E cb \in BOOLEAN : stream = StreamStart(cb)
  /\ dispatch = DispatchOff
  /\ calc = CalcOff
  /\ store = StoreOff
  /\ legacy = LegacyOff

NextStream ==
  \/ \E fs \in FrameSeqs : StreamRead(fs)
  \/ StreamClose
  \/ StreamAbort

SpecStream == InitStream /\ [][NextStream]_vars

InitLegacy ==
  /\ apiKey = NoKey
  /\ storedKey = NoKey
  /\ keyModalOpen = TRUE
  /\ currentProject = EmptyProject
  /\ generationState = InitialGenerationState
  /\ lastProject = NothingStored
  /\ tasks = [s \in Slots |-> IdleTask]
  /\ sent = {}
  /\ lastOp = [OpNone EXCEPT !.name = "init"]
  /\ retry = RetryOff
  /\ stream = StreamOff
  /\ dispatch = DispatchOff
  /\ calc = CalcOff
  /\ store = StoreOff
  /\ \E n \in 0..MaxLegacyLines :
        legacy = [LegacyOff EXCEPT !.phase = "on", !.lines = n]

NextLegacy ==
  \/ LegacyClick
  \/ \E k \in 1..MaxPending, autoGen \in BOOLEAN : LegacyResponse(k, autoGen)
  \/ \E k \in 1..MaxPending : LegacyFailure(k)

SpecLegacy == InitLegacy /\ [][NextLegacy]_vars

InitChunks ==
  /\ apiKey = NoKey
  /\ storedKey = NoKey
  /\ keyModalOpen = TRUE
  /\ currentProject = EmptyProject
  /\ generationState = InitialGenerationState
  /\ lastProject = NothingStored
  /\ tasks = [s \in Slots |-> IdleTask]
  /\ sent = {}
  /\ lastOp = [OpNone EXCEPT !.name = "init"]
  /\ retry = RetryOff
  /\ \E cb \in BOOLEAN, body \in DataBodies :
        stream = [StreamStart(cb) EXCEPT !.frames = body,
                                         !.rest = FramesText(body)]
  /\ dispatch = DispatchOff
  /\ calc = CalcOff
  /\ store = StoreOff
  /\ legacy = LegacyOff

NextChunks ==
  \/ \E n \in 1..(3 * MaxFrames + 3) : StreamReadBytes(n)
  \/ StreamClose

SpecChunks == InitChunks /\ [][NextChunks]_vars

InitDispatch ==
  /\ apiKey \in {NoKey, GoodKey}
  /\ storedKey = apiKey
  /\ keyModalOpen = (apiKey = NoKey)
  /\ currentProject = EmptyProject
  /\ generationState = InitialGenerationState
  /\ lastProject = NothingStored
  /\ tasks = [s \in Slots |-> IdleTask]
  /\ sent = {}
  /\ lastOp = [OpNone EXCEPT !.name = "init"]
  /\ retry = RetryOff
  /\ stream = StreamOff
  /\ dispatch = DispatchStart
  /\ calc = CalcOff
  /\ store = StoreOff
  /\ legacy = LegacyOff

NextDispatch ==
  \/ \E call \in DispatchCalls, model \in DispatchModels :
       DispatchCall(call, model)
  \/ \E response \in Responses : DispatchResponse(response)
  \/ DispatchTestApiKey
  \/ \E response \in Responses, matches \in BOOLEAN :
       DispatchProbeResponse(response, matches)

SpecDispatch == InitDispatch /\ [][NextDispatch]_vars

InitContext ==
  /\ apiKey = NoKey
  /\ storedKey = NoKey
  /\ keyModalOpen = TRUE
  /\ currentProject = EmptyProject
  /\ generationState = InitialGenerationState
  /\ lastProject = NothingStored
  /\ tasks = [s \in Slots |-> IdleTask]
  /\ sent = {}
  /\ lastOp = [OpNone EXCEPT !.name = "init"]
  /\ retry = RetryOff
  /\ stream = StreamOff
  /\ dispatch = DispatchOff
  /\ \E a \in ChapterArrays, i \in 0..MaxChapters :
       calc = [CalcOff EXCEPT !.phase = "input", !.fn = "getChapterContext",
                              !.input = ArrayOf(a), !.index = i]
  /\ store = StoreOff
  /\ legacy = LegacyOff

NextContext == ContextCall

SpecContext == InitContext /\ [][NextContext]_vars

InitToc ==
  /\ apiKey = NoKey
  /\ storedKey = NoKey
  /\ keyModalOpen = TRUE
  /\ currentProject = EmptyProject
  /\ generationState = InitialGenerationState
  /\ lastProject = NothingStored
  /\ tasks = [s \in Slots |-> IdleTask]
  /\ sent = {}
  /\ lastOp = [OpNone EXCEPT !.name = "init"]
  /\ retry = RetryOff
  /\ stream = StreamOff
  /\ dispatch = DispatchOff
  /\ \E text \in OutlineTexts :
       calc = [CalcOff EXCEPT !.phase = "input",
                              !.fn = "parseTableOfContents", !.input = text]
  /\ store = StoreOff
  /\ legacy = LegacyOff

NextToc == TocCall

SpecToc == InitToc /\ [][NextToc]_vars

\* SpecOutline: two outline generations, each followed or not by a call of
\* parseTableOfContents
InitOutline ==
  /\ apiKey = NoKey
  /\ storedKey = NoKey
  /\ keyModalOpen = TRUE
  /\ currentProject = EmptyProject
  /\ generationState = InitialGenerationState
  /\ lastProject = NothingStored
  /\ tasks = [s \in Slots |-> IdleTask]
  /\ sent = {}
  /\ lastOp = [OpNone EXCEPT !.name = "init"]
  /\ retry = RetryOff
  /\ stream = StreamOff
  /\ dispatch = DispatchOff
  /\ calc = [CalcOff EXCEPT !.phase = "fresh"]
  /\ store = StoreOff
  /\ legacy = LegacyOff

NextOutline ==
  \/ \E response \in OutlineResponses : OutlineStored(response)
  \/ TitlesResolved

SpecOutline == InitOutline /\ [][NextOutline]_vars

InitStorage ==
  /\ apiKey = NoKey
  /\ storedKey = NoKey
  /\ keyModalOpen = TRUE
  /\ currentProject = EmptyProject
  /\ generationState = InitialGenerationState
  /\ lastProject = NothingStored
  /\ tasks = [s \in Slots |-> IdleTask]
  /\ sent = {}
  /\ lastOp = [OpNone EXCEPT !.name = "init"]
  /\ retry = RetryOff
  /\ stream = StreamOff
  /\ dispatch = DispatchOff
  /\ calc = CalcOff
  /\ \E available \in BOOLEAN :
       store = [StoreOff EXCEPT !.phase = "on", !.available = available]
  /\ legacy = LegacyOff

NextStorage ==
  \/ \E key \in KeyInputs, fits \in BOOLEAN : StoreSaveApiKey(key, fits)
  \/ \E settings \in SettingsInputs, fits \in BOOLEAN :
       StoreSaveSettings(settings, fits)
  \/ \E projectData \in StoredProjects, fits \in BOOLEAN,
        draftFits \in BOOLEAN :
       StoreSaveProject(projectData, fits, draftFits)
  \/ Tick

SpecStorage == InitStorage /\ [][NextStorage]_vars

----------------------------------------------------------------------------
(* Properties of the chapter cursor *)

\* C1: a call of generateChapters with autoGenerate = false that succeeds
\* from a cursor c below the number of titles stores exactly one chapter,
\* the one of index c, and leaves generationState.chapterIndex at c + 1.
C1_NonAutoAdvancesCursor ==
  (/\ lastOp.name = "generateChapters"
   /\ lastOp.result = "ok"
   /\ ~generationState.autoGenerate
   /\ lastOp.start < Len(parseTableOfContents(currentProject)))
  => /\ lastOp.count = 1
     /\ lastOp.index = lastOp.start
     /\ generationState.chapterIndex = lastOp.start + 1

\* C2: when the page is reloaded right after chapter 3 was stored and the
\* stored project is loaded, the next call of generateChapters starts at
\* chapter 4 and requests none of the chapters 0 to 3.
C2_ResumesAfterRestart ==
  [][(/\ lastOp.name = "reload"
      /\ lastOp.result = "hydrated"
      /\ lastOp.index = 3
      /\ lastOp'.name = "generateChapters"
      /\ lastOp'.call
      /\ lastOp'.result # "ignored")
     => /\ lastOp'.start = 4
        /\ \A r \in sent' : r.messages.kind = "chapter" => r.messages.index >= 4
    ]_vars

----------------------------------------------------------------------------
(* Properties of a failing stage *)

\* C3: when generateConcept, generateOutline or generateChapters fails, the
\* project (concept, outline, chapters, metadata) is what it was before the
\* call: no placeholder chapter and no partial content stay behind.
C3_FailureLeavesProject ==
  (lastOp.name \in StageOps /\ lastOp.result = "failed")
  => currentProject = lastOp.before

----------------------------------------------------------------------------
(* Properties of generateWithRetry *)

\* every error fn has raised so far is a rate-limit error
AllRateLimited ==
  \A k \in 1..Len(retry.errs) : retry.errs[k] = MsgRateLimit

\* C4: with maxRetries >= 1 and an fn that raises a rate-limit error on every
\* call, generateWithRetry calls fn exactly maxRetries times and then raises
\* the error of the last call; its waits are 2^1, 2^2, ..., 2^(maxRetries-1)
\* seconds in this order, and none follows the last attempt.
C4_RateLimitBackoff ==
  (retry.phase \in {"call", "sleep", "raised"} /\ AllRateLimited)
  => /\ retry.calls <= retry.maxR
     /\ retry.waits = [k \in 1..Len(retry.waits) |-> 2^k]
     /\ retry.phase = "call" =>
          Len(retry.errs) = retry.calls - 1 /\ Len(retry.waits) = retry.calls - 1
     /\ retry.phase = "sleep" =>
          retry.calls < retry.maxR /\ Len(retry.waits) = retry.calls
     /\ retry.phase = "raised" =>
          /\ retry.calls = retry.maxR
          /\ Len(retry.errs) = retry.maxR
          /\ Len(retry.waits) = retry.maxR - 1
          /\ retry.raised = retry.errs[Len(retry.errs)]

\* fn raised a rate-limit error four times out of four, and the waits were
\* 2, 4 and 8 seconds
C4_Witness ==
  /\ retry.phase = "raised"
  /\ retry.maxR = 4
  /\ retry.calls = 4
  /\ AllRateLimited
  /\ retry.waits = <<2, 4, 8>>

\* the errors that are neither RateLimited nor ServiceUnavailable
NotTransient == {MsgInvalidKey, MsgNoKey, MsgOther, MsgFetch}

\* C5: an error of fn that is neither a rate-limit error (429) nor a
\* service-unavailable error (500/502/503) leaves generateWithRetry at once:
\* it is the last error, no call of fn and no wait follows it.
C5_OnlyTransientRetried ==
  \A k \in 1..Len(retry.errs) :
     retry.errs[k] \in NotTransient
     => /\ Len(retry.errs) = k
        /\ retry.phase = "raised"
        /\ retry.raised = retry.errs[k]
        /\ Len(retry.waits) = k - 1

----------------------------------------------------------------------------
(* Properties of the reentrancy flag *)

\* C6: while a stage method is in flight (isGenerating is true) a call of
\* generateConcept, generateOutline or generateChapters returns at once: it
\* sends nothing, changes neither the project nor the stored project nor the
\* generation state (isGenerating stays true) nor any invocation; so at most
\* one invocation is in flight at any time.
C6_CallInFlightIsNoOp ==
  /\ [](Cardinality(InFlight) <= 1)
  /\ [][(generationState.isGenerating /\ lastOp'.call)
        => /\ lastOp'.result = "ignored"
           /\ sent' = {}
           /\ UNCHANGED <<currentProject, generationState, lastProject,
                          tasks, apiKey>>
       ]_vars

\* a stage method was called while another was in flight
C6_Witness ==
  /\ lastOp.call
  /\ lastOp.result = "ignored"
  /\ generationState.isGenerating
  /\ Cardinality(InFlight) = 1
  /\ sent = {}

----------------------------------------------------------------------------
(* Properties of streamChatRequest *)

\* index of the first [DONE] frame of fs, 0 when there is none
FirstDone(fs) ==
  IF \E k \in 1..Len(fs) : fs[k].kind = "done"
  THEN CHOOSE k \in 1..Len(fs) :
         fs[k].kind = "done" /\ \A j \in 1..(k - 1) : fs[j].kind # "done"
  ELSE 0

\* the concatenation of the tokens of the well-formed data frames of fs
RECURSIVE TokenText(_)
TokenText(fs) ==
  IF fs = <<>> THEN <<>>
  ELSE (IF Head(fs).kind = "token" THEN Head(fs).content ELSE <<>>)
       \o TokenText(Tail(fs))

\* the onDelta calls due for the first k frames of fs: one per non-empty
\* token, with the token and the aggregate up to it
RECURSIVE TokenDeltas(_, _)
TokenDeltas(fs, k) ==
  IF k = 0 THEN <<>>
  ELSE IF fs[k].kind = "token" /\ fs[k].content # <<>>
       THEN Append(TokenDeltas(fs, k - 1),
                   [delta |-> fs[k].content,
                    full |-> TokenText(SubSeq(fs, 1, k)),
                    final |-> FALSE])
       ELSE TokenDeltas(fs, k - 1)

\* C7: for a body of data frames with tokens t1..tn followed by [DONE], in
\* chunks of whole lines, streamChatRequest calls onDelta once per non-empty
\* token, in order, with (ti, t1..ti, false), then once more with the whole
\* aggregate and isFinal = true, and returns t1..tn; without a callback it
\* returns the same.
C7_StreamDeltasAndReturn ==
  LET fs == stream.frames
      d == FirstDone(fs)
      pre == SubSeq(fs, 1, d - 1)
      n == Len(stream.deltas)
  IN (d > 0 /\ \A k \in 1..(d - 1) : fs[k].kind = "token")
     => /\ stream.phase = "returned"
        /\ stream.ret = TokenText(pre)
        /\ ~stream.hasCallback => stream.deltas = <<>>
        /\ stream.hasCallback =>
             /\ n >= 1
             /\ SubSeq(stream.deltas, 1, n - 1) = TokenDeltas(pre, Len(pre))
             /\ stream.deltas[n].final
             /\ stream.deltas[n].full = TokenText(pre)

\* the body was: token a, token b, [DONE], and a callback was passed
C7_Witness ==
  /\ stream.phase = "returned"
  /\ stream.hasCallback
  /\ FirstDone(stream.frames) = 3
  /\ stream.frames[1].kind = "token"
  /\ stream.frames[2].kind = "token"
  /\ stream.ret = <<"a", "b">>
  /\ Len(stream.deltas) = 3

\* the frames a step has read
NewFrames == SubSeq(stream'.frames, Len(stream.frames) + 1, Len(stream'.frames))

\* C8: a chunk with a data frame whose payload is not valid JSON raises no
\* error and does not end the stream; the frame adds nothing to the aggregate
\* and causes no onDelta call, and the well-formed frames of the chunk, those
\* after it included, are appended in order (up to a [DONE] frame).
C8_MalformedFrameSkipped ==
  [][(\E k \in 1..Len(NewFrames) : NewFrames[k].kind = "garbled")
     => LET d == FirstDone(NewFrames)
            live == IF d = 0 THEN NewFrames ELSE SubSeq(NewFrames, 1, d - 1)
            calls == Len(TokenDeltas(live, Len(live)))
                     + (IF d = 0 THEN 0 ELSE 1)
        IN /\ stream'.phase = IF d = 0 THEN "reading" ELSE "returned"
           /\ stream'.aggregated = stream.aggregated \o TokenText(live)
           /\ Len(stream'.deltas) =
                Len(stream.deltas) + (IF stream.hasCallback THEN calls ELSE 0)
    ]_vars

\* a malformed frame was followed by a token, which is in the aggregate
C8_Witness ==
  /\ stream.phase = "reading"
  /\ Len(stream.frames) = 3
  /\ stream.frames[1].kind = "token" /\ stream.frames[1].content = <<"a">>
  /\ stream.frames[2].kind = "garbled"
  /\ stream.frames[3].kind = "token" /\ stream.frames[3].content = <<"b">>
  /\ stream.aggregated = <<"a", "b">>
  /\ stream.hasCallback
  /\ Len(stream.deltas) = 2

----------------------------------------------------------------------------
(* Properties of the requests *)

\* the four request functions called with no key
WithoutKey ==
  LET messages == [kind |-> "probe", index |-> 0]
      options == [model |-> "gpt-4o-mini", response_format |-> "none"]
  IN {makeChatRequest(NoKey, messages, options),
      streamChatRequest(NoKey, messages, options),
      makeResponsesRequest(NoKey, messages, options),
      generateImage(NoKey, messages)}

\* C9: with apiKey null, makeChatRequest, streamChatRequest,
\* makeResponsesRequest and generateImage raise 'API key not set' and send
\* nothing; no step of the pipeline sends a request while apiKey is null, and
\* no request goes out without a key.
C9_NoRequestWithoutKey ==
  /\ \A r \in WithoutKey : r.err = MsgNoKey /\ r.req = NoRequest
  /\ apiKey = NoKey => sent = {}
  /\ \A r \in sent : r.auth # NoKey

\* a stage method was called with no key and failed, nothing was sent
C9_Witness ==
  /\ apiKey = NoKey
  /\ lastOp.name \in StageOps
  /\ lastOp.result = "failed"
  /\ sent = {}

\* C10: no request to the chat endpoint, from makeChatRequest or
\* streamChatRequest, whoever calls them, carries response_format, also when
\* the caller passes one in its options as generateOutline does.
C10_NoResponseFormatOnChat ==
  \A r \in sent : r.endpoint = "chat" => r.response_format = "none"

\* generateOutline sent its request to the chat endpoint
C10_Witness ==
  \E r \in sent :
     /\ r.endpoint = "chat"
     /\ r.messages.kind = "outline"
     /\ JsonFormat(useJsonOutlineWhenAvailable) = "json_object"

----------------------------------------------------------------------------
(* Properties of the request functions *)

\* C11: after every response, whatever its status and whichever request
\* function received it, rateLimitInfo.remaining and rateLimitInfo.resetTime
\* are the values of that response's rate-limit headers.
C11_SnapshotFollowsEveryResponse ==
  dispatch.response # NoResponse =>
    /\ dispatch.rateLimitInfo.remaining = dispatch.response.headers.remaining
    /\ dispatch.rateLimitInfo.resetTime = dispatch.response.headers.resetTime

\* the last call ended on a non-success response
EndedOnError ==
  /\ dispatch.phase = "idle"
  /\ dispatch.response # NoResponse
  /\ dispatch.response.status # 200

\* C12: a request function that ends on a non-success response raises, and
\* the message tells the kind: 401 the invalid key, 429 the rate limit with
\* the retry-after value (60 without the header), 500/502/503 the
\* unavailable service, any other status the upstream message as it came,
\* or the message made of the status code when the body carries none.
C12_ErrorClassification ==
  EndedOnError =>
    LET response == dispatch.response
    IN /\ dispatch.outcome = "raised"
       /\ response.status = 401 => dispatch.message = <<MsgInvalidKey>>
       /\ response.status = 429 =>
            dispatch.message =
              <<"Rate limit exceeded. Please wait ",
                IF response.retryAfter = Absent THEN "60"
                ELSE response.retryAfter,
                " seconds before trying again.">>
       /\ response.status \in {500, 502, 503} =>
            dispatch.message = <<MsgUnavailable>>
       /\ response.status \notin {401, 429, 500, 502, 503} =>
            dispatch.message =
              IF response.body.json = "object" /\ response.body.message # ""
              THEN <<response.body.message>>
              ELSE <<"API request failed with status ",
                     ToString(response.status)>>

\* the identifiers config.js lists with preferredApi 'responses'
ResponsesModels == {"gpt-5-pro", "gpt-5", "gpt-5-mini", "gpt-5-nano", "o4-mini"}

\* C13: the endpoint of a text request depends on its model identifier
\* alone: the responses endpoint for the identifiers CONFIG.MODELS lists
\* with preferredApi 'responses', the chat endpoint for every other
\* identifier, listed or not; one request per call, whatever was requested
\* before.
C13_EndpointByModel ==
  /\ \A model \in DispatchModels :
       preferResponsesAPI(model) = (model \in ResponsesModels)
  /\ \A r \in sent :
       r.endpoint # "images" =>
         /\ r.endpoint \in {"chat", "responses"}
         /\ (r.endpoint = "responses") = (r.model \in ResponsesModels)
  /\ dispatch.phase = "await" => Cardinality(sent) = 1

\* the second call asks for a model that is not listed, after a first call
\* whose response carried rate-limit headers
C13_Witness ==
  /\ dispatch.phase = "await"
  /\ dispatch.calls = 2
  /\ dispatch.rateLimitInfo.remaining = "9"
  /\ \E r \in sent : r.model = "my-model" /\ r.endpoint = "chat"

----------------------------------------------------------------------------
(* Properties of getChapterContext and parseTableOfContents *)

\* the symbols of text that are in set, in order
Only(text, set) == SelectSeq(text, LAMBDA c : c \in set)

ContextDone == calc.phase = "done" /\ calc.fn = "getChapterContext"

\* the slots before the index, and those of them that hold a chapter
SlotsBefore ==
  IF Len(calc.input) < calc.index THEN Len(calc.input) ELSE calc.index
PriorChapters == {k \in 1..SlotsBefore : calc.input[k] # Hole}

\* the titles of the chapters before the index, in ascending order
PriorTitles ==
  LET f[k \in 0..SlotsBefore] ==
        IF k = 0 THEN <<>>
        ELSE IF k \in PriorChapters THEN Append(f[k - 1], calc.input[k].title)
        ELSE f[k - 1]
  IN f[SlotsBefore]

\* the number of content symbols the previews of the prior chapters hold
RECURSIVE PreviewTotal(_)
PreviewTotal(set) ==
  IF set = {} THEN 0
  ELSE LET k == CHOOSE k \in set : TRUE
           n == Len(calc.input[k].content)
       IN (IF n < 200 THEN n ELSE 200) + PreviewTotal(set \ {k})

TocDone == calc.phase = "done" /\ calc.fn = "parseTableOfContents"

\* the line without blanks around it and without a leading marker
\* "Chapter N" or "Chapter N:"
Unmarked(line) ==
  LET t == Trim(line)
  IN IF /\ Len(t) >= 3
        /\ t[1] \in {"Chapter", "chapter", "CHAPTER"}
        /\ t[2] = " "
        /\ t[3] \in {"0", "1", "2", "3"}
     THEN Trim(Drop(t, IF Len(t) >= 4 /\ t[4] = ":" THEN 4 ELSE 3))
     ELSE t

\* title is line without its marker and without a trailing " - description"
TitleAsStated(title, line) ==
  LET u == Unmarked(line)
  IN \/ title = u
     \/ /\ Len(title) + 3 < Len(u)
        /\ SubSeq(u, 1, Len(title) + 3) = title \o <<" ", "-", " ">>

\* C15: without a structured chapter list, parseTableOfContents gives one
\* title per non-empty line that does not start with '#', in order: the
\* line without its leading "Chapter N:" marker and without its trailing
\* " - description".
C15_TitlesFromOutlineText ==
  TocDone =>
    LET kept == SelectSeq(calc.input,
                          LAMBDA l : Trim(l) # <<>> /\ Head(Trim(l)) # "#")
    IN /\ Len(calc.result) = Len(kept)
       /\ \A k \in 1..Len(kept) : TitleAsStated(calc.result[k], kept[k])

----------------------------------------------------------------------------
(* Properties of persistence *)

\* C16: when the project in memory is the one saveProject stored and the
\* page is reloaded and the stored project loaded, the concept, the
\* outline, the chapters and the cursor are what they were before.
C16_RoundTrip ==
  [][(/\ lastProject.present
      /\ lastProject.project = currentProject
      /\ lastOp'.name = "reload"
      /\ lastOp'.result = "hydrated")
     => /\ currentProject'.concept = currentProject.concept
        /\ currentProject'.tableOfContents = currentProject.tableOfContents
        /\ currentProject'.chapters = currentProject.chapters
        /\ generationState'.chapterIndex = generationState.chapterIndex
    ]_vars

\* C17: a save method called a second time with the same data returns as
\* the first time (it does not throw) and leaves localStorage as the
\* first call left it.
C17_SavesAreIdempotent ==
  store.repeated => store.disk = store.prev

----------------------------------------------------------------------------
(* Properties of the stages' order *)

\* C18: an outline request is sent only with a stored concept that is not
\* empty, a chapter request only with a stored outline that is not empty;
\* and in every state an outline that is not empty comes with a concept
\* that is not empty, chapters with an outline that is not empty.
C18_StagePrerequisites ==
  /\ \A r \in sent :
       /\ r.messages.kind = "outline" => currentProject.concept # ""
       /\ r.messages.kind = "chapter" => currentProject.tableOfContents # <<>>
  /\ currentProject.tableOfContents # <<>> => currentProject.concept # ""
  /\ currentProject.chapters # <<>> => currentProject.tableOfContents # <<>>

\* C19: in every state generationState.chapterIndex is at most the length
\* of currentProject.chapters.
C19_CursorWithinChapters ==
  generationState.chapterIndex <= Len(currentProject.chapters)

\* chapter k is in the stored project, with a content
Persisted(k) ==
  /\ lastProject.present
  /\ k < Len(lastProject.project.chapters)
  /\ lastProject.project.chapters[k + 1].kind = "chapter"
  /\ lastProject.project.chapters[k + 1].content # <<>>

\* C20: a chapter request is for index 0 or for an index whose predecessor
\* is stored, no chapter of a higher index is stored when it is sent, and
\* it is the only chapter request in flight.
C20_ChaptersInAscendingOrder ==
  /\ Cardinality({s \in Slots : tasks[s].pc # "idle"
                                /\ tasks[s].call = "chapter"}) <= 1
  /\ \A r \in sent :
       r.messages.kind = "chapter" =>
         /\ r.messages.index > 0 => Persisted(r.messages.index - 1)
         /\ \A k \in (r.messages.index + 1)..ResumeTitles : ~Persisted(k)

\* C21: after resetProject the project in memory is empty (no concept, no
\* outline, no chapters, cursor 0, isGenerating false) and the stored
\* project, which loadLastProject would hydrate after a restart, holds no
\* concept, outline or chapter either.
C21_ResetIsDurable ==
  lastOp.name = "resetProject" =>
    /\ currentProject.concept = ""
    /\ currentProject.tableOfContents = <<>>
    /\ currentProject.chapters = <<>>
    /\ generationState.chapterIndex = 0
    /\ ~generationState.isGenerating
    /\ lastProject.present =>
         /\ lastProject.project.concept = ""
         /\ lastProject.project.tableOfContents = <<>>
         /\ lastProject.project.chapters = <<>>

\* the pipeline stage of a project, by the furthest artefact it holds:
\* 0 Empty, 1 ConceptReady, 2 OutlineReady, 3 ChaptersInProgress,
\* 4 ChaptersComplete (every title of the outline has a chapter with text)
Stage(p) ==
  LET titles == parseTableOfContents(p)
      complete == /\ Len(titles) > 0
                  /\ Len(p.chapters) >= Len(titles)
                  /\ \A k \in 1..Len(titles) :
                       /\ p.chapters[k].kind = "chapter"
                       /\ p.chapters[k].content # <<>>
  IN IF p.chapters # <<>> THEN (IF complete THEN 4 ELSE 3)
     ELSE IF p.tableOfContents # <<>> THEN 2
          ELSE IF p.concept # "" THEN 1 ELSE 0

\* C22: along the calls of generateConcept, generateOutline and
\* generateChapters and the steps of their invocations, whatever text the
\* service returns, the pipeline stage of the project never decreases.
C22_StageNeverDecreases ==
  [][Stage(currentProject') >= Stage(currentProject)]_vars

\* C23: an invocation of a stage method in which generateWithRetry raised
\* the error of its last attempt does not end as a success: when it ends,
\* the stage reports a failure.
C23_TerminalFailureFailsStage ==
  [][\A s \in Slots :
       (/\ tasks[s].pc # "idle"
        /\ tasks[s].err # MsgNone
        /\ tasks'[s].pc = "idle") => lastOp'.result = "failed"]_vars

\* testApiKey got 401 from every candidate
ProbesAll401 ==
  /\ dispatch.probing = Len(probeCandidates)
  /\ dispatch.denied = Len(probeCandidates)

\* C24: an operation that ends on a 401 reply raises the invalid-key error,
\* one that ends on a missing key raises the missing-key error, and no
\* other failure raises either of the two; this covers testApiKey.
C24_CredentialErrorsOwnKind ==
  dispatch.outcome = "raised" =>
    LET missing == apiKey = NoKey
        invalid == /\ ~missing
                   /\ IF dispatch.probing > 0 THEN ProbesAll401
                      ELSE dispatch.response.status = 401
    IN /\ missing => dispatch.message = <<MsgNoKey>>
       /\ invalid => dispatch.message = <<MsgInvalidKey>>
       /\ (~missing /\ ~invalid) =>
            dispatch.message \notin {<<MsgNoKey>>, <<MsgInvalidKey>>}

\* generateChapters has just ended in a failure and the outline has titles:
\* the request of chapter lastOp.index failed
ChapterFailed ==
  /\ lastOp.name = "generateChapters"
  /\ lastOp.result = "failed"
  /\ Len(parseTableOfContents(currentProject)) > 0

\* the chapters the run stored before it failed are in the project and in
\* the stored project, with their text
EarlierChaptersKept ==
  \A k \in lastOp.start..(lastOp.index - 1) :
     /\ ~ChapterMissing(currentProject.chapters, k)
     /\ currentProject.chapters[k + 1].content # <<>>
     /\ Persisted(k)
     /\ lastProject.project.chapters[k + 1].content =
          currentProject.chapters[k + 1].content

\* C25: when the request of chapter i fails in generateChapters, with or
\* without auto-generation, then after the return the cursor is i,
\* isGenerating is false and the chapters the run completed before i are
\* in the project and in storage; and a generateChapters call that comes
\* next starts at i and sends the request of chapter i and no other.
C25_FailedChapterIsRetried ==
  [][/\ ChapterFailed' =>
          /\ generationState'.chapterIndex = lastOp'.index
          /\ ~generationState'.isGenerating
          /\ lastOp'.count = lastOp'.index - lastOp'.start
          /\ EarlierChaptersKept'
     /\ (ChapterFailed /\ lastOp'.name = "generateChapters" /\ lastOp'.call)
        => /\ lastOp'.result = "started"
           /\ lastOp'.start = lastOp.index
           /\ \E r \in sent' : r.messages = [kind |-> "chapter",
                                             index |-> lastOp.index]
           /\ \A r \in sent' : r.messages = [kind |-> "chapter",
                                             index |-> lastOp.index]
    ]_vars

\* an auto run that started at chapter 0 stored chapters 0 and 1 and
\* failed on the request of chapter 2
C25_Witness ==
  /\ ChapterFailed
  /\ generationState.autoGenerate
  /\ lastOp.start = 0
  /\ lastOp.index = 2
  /\ generationState.chapterIndex = 2
  /\ Persisted(0) /\ Persisted(1)

\* an auto run of generateChapters has just ended without error and every
\* title of the outline has its chapter
RunCompleted ==
  /\ lastOp.name = "generateChapters"
  /\ lastOp.result = "ok"
  /\ generationState.autoGenerate
  /\ Stage(currentProject) = 4

\* C26: when an auto run has completed all N chapters the cursor is N, and
\* a generateChapters call that comes next sends no request and leaves the
\* stored chapters as they are.
C26_CompletedRunIsFinal ==
  [][/\ RunCompleted' =>
          generationState'.chapterIndex =
            Len(parseTableOfContents(currentProject'))
     /\ (RunCompleted /\ lastOp'.name = "generateChapters" /\ lastOp'.call)
        => /\ sent' = {}
           /\ currentProject'.chapters = currentProject.chapters
    ]_vars

\* C27: every chapter of the stored project holds the complete text of a
\* finished generation; a chapter that is not generated yet is absent.
C27_NoPartialChapterStored ==
  lastProject.present =>
    \A k \in 1..Len(lastProject.project.chapters) :
       lastProject.project.chapters[k].kind = "chapter" =>
         lastProject.project.chapters[k].content = FullText

\* the errors a caller may retry: RateLimited and ServiceUnavailable
Transient == {MsgRateLimit, MsgUnavailable}

\* C28: in generateWithRetry the k-th attempt failing with a retryable
\* error, for k < maxRetries, is followed by one wait, of k seconds, or of
\* 2^k seconds when the error is a rate limit, and then by attempt k + 1;
\* for k = maxRetries the error is raised unchanged and no wait follows.
C28_WaitSchedule ==
  \A k \in 1..Len(retry.errs) :
     retry.errs[k] \in Transient =>
       IF k < retry.maxR
       THEN /\ Len(retry.waits) >= k
            /\ retry.waits[k] = IF retry.errs[k] = MsgRateLimit THEN 2^k ELSE k
            /\ IF retry.phase = "sleep" /\ Len(retry.errs) = k
               THEN retry.calls = k /\ Len(retry.waits) = k
               ELSE retry.calls >= k + 1
       ELSE /\ k = retry.maxR
            /\ Len(retry.errs) = k
            /\ retry.calls = k
            /\ retry.phase = "raised"
            /\ retry.raised = retry.errs[k]
            /\ Len(retry.waits) = k - 1

\* fn failed four times out of four, with ServiceUnavailable, RateLimited,
\* ServiceUnavailable, RateLimited: the waits were 1, 4 and 3 seconds and
\* the last error was raised
C28_Witness ==
  /\ retry.phase = "raised"
  /\ retry.maxR = 4
  /\ retry.errs = <<MsgUnavailable, MsgRateLimit, MsgUnavailable, MsgRateLimit>>
  /\ retry.waits = <<1, 4, 3>>
  /\ retry.raised = MsgRateLimit

\* the outline is not empty and yields no chapter title
ZeroTitles ==
  /\ currentProject.tableOfContents # <<>>
  /\ Len(parseTableOfContents(currentProject)) = 0

\* C29: a call of generateChapters, none being in flight, on an outline
\* that yields no title ends in a failure within the call: it sends no
\* request, leaves the project, the stored project and the cursor as they
\* are, and isGenerating is false when it returns.
C29_NoChaptersFound ==
  [][(/\ lastOp'.name = "generateChapters"
      /\ lastOp'.call
      /\ ZeroTitles
      /\ ~generationState.isGenerating)
     => /\ lastOp'.result = "failed"
        /\ sent' = {}
        /\ currentProject' = currentProject
        /\ lastProject' = lastProject
        /\ generationState'.chapterIndex = generationState.chapterIndex
        /\ ~generationState'.isGenerating
        /\ tasks' = tasks
    ]_vars

\* generateChapters has just failed on an outline without titles
C29_Witness ==
  /\ lastOp.name = "generateChapters"
  /\ lastOp.call
  /\ lastOp.result = "failed"
  /\ ZeroTitles
  /\ sent = {}
  /\ currentProject.chapters = <<>>
  /\ ~generationState.isGenerating

\* C30: a call of generateOutline while the project has no concept, or of
\* generateChapters while it has no outline, no stage being in flight,
\* ends in a reported failure.
C30_StageOutOfOrderReported ==
  [][(/\ lastOp'.call
      /\ ~generationState.isGenerating
      /\ \/ lastOp'.name = "generateOutline" /\ currentProject.concept = ""
         \/ /\ lastOp'.name = "generateChapters"
            /\ currentProject.tableOfContents = <<>>)
     => lastOp'.result = "failed"
    ]_vars

\* C31: a request to a model that prefers the responses endpoint is never
\* a streaming one and goes to the responses endpoint; a streaming request
\* goes to the chat endpoint and is a chapter request; the body of a
\* response is read as a stream, and onToken called, only in a chapter
\* request to a model that does not prefer the responses endpoint.
C31_ResponsesNeverStreams ==
  /\ \A r \in sent :
       /\ preferResponsesAPI(r.model) =>
            ~r.stream /\ r.endpoint = "responses"
       /\ r.stream => r.endpoint = "chat" /\ r.messages.kind = "chapter"
  /\ \A s \in Slots :
       (tasks[s].pc = "stream" \/ tasks[s].aggregated # <<>>) =>
         /\ tasks[s].call = "chapter"
         /\ ~preferResponsesAPI(tasks[s].model)

\* chapter 0 was generated through the responses endpoint, no token was
\* delivered, and the run waits before chapter 1
C31_Witness ==
  \E s \in Slots :
     /\ tasks[s].pc = "delay"
     /\ tasks[s].call = "chapter"
     /\ tasks[s].i = 0
     /\ preferResponsesAPI(tasks[s].model)
     /\ tasks[s].aggregated = <<>>
     /\ ~ChapterMissing(currentProject.chapters, 0)
     /\ currentProject.chapters[1].content = FullText

\* parseTableOfContents has run on the outline stored last
Resolved == calc.phase \in {"once", "twice"} /\ calc.fn # "none"

\* the titles of a chapter list as the claim states them: the titles that
\* are strings, without the blanks around them, the empty ones left out
TrimmedTitles(chapters) ==
  LET kept == SelectSeq(chapters,
                        LAMBDA ch : ch.isString /\ Trim(ch.text) # <<>>)
  IN [k \in 1..Len(kept) |-> Trim(kept[k].text)]

\* C32: when the last outline response was JSON with a chapter list,
\* parseTableOfContents gives the titles of that list, trimmed, the empty
\* ones dropped, in order; and it extracts titles from the outline text
\* only when no chapter list is stored.
C32_StructuredListIsAuthoritative ==
  Resolved =>
    /\ calc.last = "chapters" =>
         /\ calc.fn = "structured"
         /\ calc.result = TrimmedTitles(calc.outlineJson.chapters)
    /\ calc.fn = "text" => calc.outlineJson.kind # "chapters"

\* the list holds ' Finale ' and 'Spider-Man': the titles resolved are
\* 'Finale' and 'Spider-Man', while the outline text would give 'Finale'
\* and 'Spider'
C32_Witness ==
  /\ Resolved
  /\ calc.last = "chapters"
  /\ calc.result = << <<"Finale">>, <<"Spider", "-", "Man">> >>
  /\ parseOutlineText(calc.input) = << <<"Finale">>, <<"Spider">> >>

\* C38: when the last outline response was not JSON, parseTableOfContents
\* extracts the titles from that outline's text; when it was JSON without
\* a chapter list, likewise; a chapter list of an earlier outline is not
\* used.
C38_TitlesFromLatestOutline ==
  Resolved =>
    (calc.last \in {"text", "object"} =>
       /\ calc.fn = "text"
       /\ calc.result = parseOutlineText(calc.input))

\* C33: generateChapters waits the inter-chapter delay only when
\* auto-generation is set and a chapter follows the one just stored.
C33_DelayOnlyBetweenAutoChapters ==
  \A s \in Slots :
     tasks[s].pc = "delay" =>
       /\ generationState.autoGenerate
       /\ tasks[s].i + 1 < Len(tasks[s].titles)

\* C34: for a body of data frames followed by [DONE], however the reader
\* cuts it into chunks, streamChatRequest returns the concatenation of the
\* tokens of all the frames.
C34_AggregateIndependentOfChunking ==
  (stream.phase = "returned" /\ Len(stream.rest) <= 1)
     => stream.ret = TokenText(stream.frames)

\* the onDelta calls made with isFinal = true
FinalDeltas == SelectSeq(stream.deltas, LAMBDA d : d.final)

\* C37: once a [DONE] frame is read streamChatRequest has called onDelta
\* with isFinal = true exactly once, as its last call, and has returned the
\* tokens before that frame, the frames after it left unprocessed; when the
\* connection closes with no [DONE] frame read it returns the aggregate so
\* far and has made no call with isFinal = true.
C37_FinalDeltaOnSentinel ==
  LET d == FirstDone(stream.frames) IN
  /\ Len(FinalDeltas) <= 1
  /\ Len(FinalDeltas) = 1 => stream.deltas[Len(stream.deltas)].final
  /\ d > 0 =>
       /\ stream.phase = "returned"
       /\ Len(FinalDeltas) = IF stream.hasCallback THEN 1 ELSE 0
       /\ stream.ret = TokenText(SubSeq(stream.frames, 1, d - 1))
       /\ stream.aggregated = stream.ret
  /\ (stream.phase = "returned" /\ d = 0) =>
       /\ FinalDeltas = <<>>
       /\ stream.ret = stream.aggregated

\* the body was: token a, [DONE] and token b in one chunk; b is not in the
\* aggregate and the final call is the last one
C37_Witness ==
  /\ stream.phase = "returned"
  /\ stream.hasCallback
  /\ Len(stream.frames) = 3
  /\ stream.frames[1].kind = "token" /\ stream.frames[1].content = <<"a">>
  /\ stream.frames[2].kind = "done"
  /\ stream.frames[3].kind = "token" /\ stream.frames[3].content = <<"b">>
  /\ stream.ret = <<"a">>
  /\ Len(stream.deltas) = 2
  /\ stream.deltas[2].final

\* generateWithRetry has ended, with a result or with an error
RetryEnded == retry.phase \in {"returned", "raised"}

\* C39: generateWithRetry calls fn at most maxRetries times; when a call
\* succeeds it returns at once, each earlier call having failed and been
\* followed by one wait, and nothing follows the return; and it always
\* ends, with a result or with an error.
C39_RetryStopsAndTerminates ==
  /\ [](retry.calls <= retry.maxR)
  /\ [](retry.phase = "returned" =>
          /\ Len(retry.errs) = retry.calls - 1
          /\ Len(retry.waits) = retry.calls - 1
          /\ retry.raised = MsgNone)
  /\ [][RetryEnded => retry' = retry]_vars
  /\ <>RetryEnded

\* the third call of fn out of four succeeded, after two failures and waits
C39_Witness ==
  /\ retry.phase = "returned"
  /\ retry.maxR = 4
  /\ retry.calls = 3
  /\ Len(retry.errs) = 2
  /\ Len(retry.waits) = 2

\* a stage method is still suspended on its request although isGenerating
\* is false: resetProject has run since it started
ResetInFlight == InFlight # {} /\ ~generationState.isGenerating

\* C35: after a resetProject made while a stage is in flight, the steps of
\* that stage (its response, its streamed tokens) change neither the project
\* nor the stored project, and no second stage is in flight beside it.
C35_ResetWinsOverInFlightStage ==
  /\ [](Cardinality(InFlight) <= 1)
  /\ [][(ResetInFlight /\ ~lastOp'.call)
        => /\ currentProject' = currentProject
           /\ lastProject' = lastProject
       ]_vars

\* a step in which an invocation of a stage method ends
StageEnds == lastOp'.name \in StageOps /\ lastOp'.result \in {"ok", "failed"}

\* C36: every invocation of a stage method that set isGenerating leaves it
\* false when it ends, with or without an error; so, every request
\* returning or failing, isGenerating true leads to isGenerating false.
C36_FlagAlwaysReleased ==
  /\ [][StageEnds => ~generationState'.isGenerating]_vars
  /\ generationState.isGenerating ~> ~generationState.isGenerating

\* generateConcept ended in its catch block, and isGenerating is false
C36_Witness ==
  /\ lastOp.name = "generateConcept"
  /\ lastOp.result = "failed"
  /\ ~generationState.isGenerating
  /\ InFlight = {}

\* C40: on the legacy page, however the clicks on the chapters button
\* interleave with the pending responses, no two chapters written are for
\* the same line of the contents, each chapter stands under the heading of
\* the line its request was made for, and currentLine stays within the
\* number of lines.
C40_LegacyChaptersOncePerLine ==
  /\ \A i, j \in 1..Len(legacy.written) :
       i # j => legacy.written[i].title # legacy.written[j].title
  /\ \A i \in 1..Len(legacy.written) :
       legacy.written[i].heading = legacy.written[i].title
  /\ legacy.currentLine <= legacy.lines

====
